---- MODULE Spec2Model ----
(***************************************************************************)
(* Simulated trading engine of the bot: TradeExecutor (order simulator and *)
(* position ledger, trade_executor.py), RiskManager (risk_manager.py) and  *)
(* the threads of TradingBot (main.py) that call into them.                *)
(*                                                                         *)
(* Python floats are modelled as exact rationals <<n, d>> in lowest terms  *)
(* with d > 0; Python's None is the pair <<0, 0>>.                         *)
(***************************************************************************)
EXTENDS Integers, Sequences, FiniteSets, TLC

VARIABLES
    orders,             \* TradeExecutor.orders: id -> Order (ids 1..n in creation order)
    trades,             \* TradeExecutor.trades
    positions,          \* TradeExecutor.positions: symbol -> Position
    current_prices,     \* TradeExecutor.current_prices: symbol -> price
    available_balance,  \* TradeExecutor.available_balance
    total_trades,       \* TradeExecutor.total_trades
    winning_trades,     \* TradeExecutor.winning_trades
    losing_trades,      \* TradeExecutor.losing_trades
    total_commission,   \* TradeExecutor.total_commission
    commission_rate,    \* TradeExecutor.commission_rate
    slippage,           \* TradeExecutor.slippage
    daily_trades,       \* RiskManager.daily_trades: date -> count
    daily_loss,         \* RiskManager.daily_loss: date -> loss fraction
    today,              \* datetime.now().date(), as a day number
    stop_loss_orders,   \* RiskManager.stop_loss_orders: symbol -> stop price
    take_profit_orders, \* RiskManager.take_profit_orders: symbol -> target price
    auto_trading_enabled, \* TradingBot.auto_trading_enabled
    strategies,         \* StrategyManager.strategies: name -> strategy object
    active_strategy,    \* StrategyManager.active_strategy: a strategy object or NoStrategy
    signals_history,    \* TradingStrategy.signals_history of each strategy object
    last_signal,        \* TradingStrategy.last_signal of each strategy object
    last_ma_cross,      \* DualMAStrategy.last_ma_cross
    ws,                 \* the data collector's WebSocket thread, inside update_price
    main,               \* the main thread, inside TradingBot.stop
    submit              \* threads of the caller, each inside place_order

exvars == <<orders, trades, positions, current_prices, available_balance,
            total_trades, winning_trades, losing_trades, total_commission>>
cfgvars == <<commission_rate, slippage, auto_trading_enabled>>
rmvars == <<daily_trades, daily_loss, today, stop_loss_orders, take_profit_orders>>
thvars == <<ws, main, submit>>
smvars == <<strategies, active_strategy, signals_history, last_signal,
            last_ma_cross>>

----------------------------------------------------------------------------
(* Exact rational arithmetic standing for Python float arithmetic.         *)

None == <<0, 0>>
IsNone(x) == x[2] = 0
R(n) == <<n, 1>>
Zero == R(0)
One == R(1)

Abs(n) == IF n < 0 THEN -n ELSE n

RECURSIVE GCD(_, _)
GCD(a, b) == IF b = 0 THEN a ELSE GCD(b, a % b)

LCM(a, b) == (a \div GCD(a, b)) * b

Norm(n, d) == LET g == GCD(Abs(n), d) IN <<n \div g, d \div g>>

Frac(n, d) == Norm(n, d)

RAdd(x, y) ==
    LET L == LCM(x[2], y[2])
    IN  Norm(x[1] * (L \div x[2]) + y[1] * (L \div y[2]), L)

RNeg(x) == <<-x[1], x[2]>>

RSub(x, y) == RAdd(x, RNeg(y))

RMul(x, y) ==
    LET g1 == GCD(Abs(x[1]), y[2])
        g2 == GCD(Abs(y[1]), x[2])
    IN  IF x[1] = 0 \/ y[1] = 0 THEN Zero
        ELSE <<(x[1] \div g1) * (y[1] \div g2), (x[2] \div g2) * (y[2] \div g1)>>

RInv(x) == IF x[1] < 0 THEN <<-x[2], -x[1]>> ELSE <<x[2], x[1]>>

RDiv(x, y) == RMul(x, RInv(y))

RLt(x, y) ==
    LET L == LCM(x[2], y[2])
    IN  x[1] * (L \div x[2]) < y[1] * (L \div y[2])

RLe(x, y) == ~RLt(y, x)
RGt(x, y) == RLt(y, x)
RGe(x, y) == ~RLt(x, y)

\* Python truthiness of an optional float: None and 0.0 are falsy.
Truthy(x) == ~IsNone(x) /\ x[1] # 0

----------------------------------------------------------------------------
(* Configuration (config.py).                                              *)

TRADING_PAIRS == {"BTCUSDT", "ETHUSDT"}
INITIAL_BALANCE == 10000
MIN_TRADE_AMOUNT == 10
MAX_POSITION_SIZE == Frac(1, 2)
STOP_LOSS_PCT == 2
TAKE_PROFIT_PCT == 5
MAX_DAILY_TRADES == 50
MAX_DAILY_LOSS_PCT == 10
BACKTEST_COMMISSION == Frac(1, 1000)
BACKTEST_SLIPPAGE == Frac(5, 10000)

initial_balance == R(INITIAL_BALANCE)
max_position_size == MAX_POSITION_SIZE

DEFAULT_TRADING_PAIR == "BTCUSDT"

(* Bounds of the model. *)
MaxOrders == 2          \* orders created in a behaviour of Spec
MaxLedgerOrders == 3    \* orders created in a behaviour of SpecLedger
MaxScenarioOrders == 3  \* orders created in a behaviour of SpecScenario
MaxDay == 1             \* dates observed: 0..MaxDay
MaxHistory == 2         \* signals recorded in a behaviour of SpecDualMA
MaxCombinedSignals == 5 \* signals recorded by all strategies in a behaviour of SpecCombined
MaxGenerated == 3       \* signals recorded by all strategies in a behaviour of SpecGenerators
MaxPairOrders == 2      \* orders created in a behaviour of SpecPairs
MaxShutdownOrders == 2  \* orders created in a behaviour of SpecShutdown

(* Inputs. *)
Sides == {"BUY", "SELL"}
OrderTypes == {"MARKET", "LIMIT", "STOP_LOSS", "TAKE_PROFIT"}
Terminal == {"FILLED", "CANCELLED", "REJECTED", "EXPIRED"}
TickPrices == {R(2000), R(3000)}
LimitPrice == R(2500)

\* Arguments of place_order.  MARKET orders take any quantity, a bad one
\* included; resting orders are for two units at the price between the ticks.
MarketRequests(syms) ==
    [symbol : syms, side : Sides, order_type : {"MARKET"},
     quantity : {R(-1), R(0), R(1), R(2)}, price : {None}, stop_price : {None}]

LimitRequests(syms, sides) ==
    [symbol : syms, side : sides, order_type : {"LIMIT"},
     quantity : {R(2)}, price : {None, LimitPrice}, stop_price : {None}]

TakeProfitRequests(syms) ==
    [symbol : syms, side : Sides, order_type : {"TAKE_PROFIT"},
     quantity : {R(2)}, price : {None, LimitPrice}, stop_price : {None}]

StopLossRequests(syms) ==
    [symbol : syms, side : Sides, order_type : {"STOP_LOSS"},
     quantity : {R(2)}, price : {None, LimitPrice}, stop_price : {LimitPrice}]

Requests ==
    MarketRequests(TRADING_PAIRS) \cup LimitRequests(TRADING_PAIRS, Sides)
    \cup TakeProfitRequests(TRADING_PAIRS) \cup StopLossRequests(TRADING_PAIRS)

----------------------------------------------------------------------------
(* The executor as a value, so that each method is an operator from the    *)
(* object before the call to the object after it.                          *)

Self == [orders |-> orders, trades |-> trades, positions |-> positions,
         current_prices |-> current_prices,
         available_balance |-> available_balance,
         total_trades |-> total_trades, winning_trades |-> winning_trades,
         losing_trades |-> losing_trades, total_commission |-> total_commission,
         commission_rate |-> commission_rate, slippage |-> slippage]

Order(id, symbol, side, order_type, quantity, price, stop_price) ==
    [id |-> id, symbol |-> symbol, side |-> side, order_type |-> order_type,
     quantity |-> quantity, price |-> price, stop_price |-> stop_price,
     filled_quantity |-> Zero, remaining_quantity |-> quantity,
     avg_fill_price |-> Zero, status |-> "PENDING", fills |-> <<>>,
     commission |-> Zero]

Trade(order_id, symbol, side, quantity, price, commission) ==
    [order_id |-> order_id, symbol |-> symbol, side |-> side,
     quantity |-> quantity, price |-> price, total |-> RMul(quantity, price),
     commission |-> commission]

Position ==
    [quantity |-> Zero, avg_price |-> Zero, realized_pnl |-> Zero,
     unrealized_pnl |-> Zero, total_cost |-> Zero, total_commission |-> Zero]

\* A position update that keeps avg_price and total_cost when a sell
\* closes the position.
Position_update_position_keep_avg(pos, trade) ==
    LET p1 ==
          IF trade.side = "BUY" THEN
            LET new_total_cost == RAdd(pos.total_cost, trade.total)
                new_quantity == RAdd(pos.quantity, trade.quantity)
            IN  [pos EXCEPT
                   !.avg_price = IF RGt(new_quantity, Zero)
                                 THEN RDiv(new_total_cost, new_quantity) ELSE @,
                   !.quantity = new_quantity,
                   !.total_cost = new_total_cost]
          ELSE IF RGt(pos.quantity, Zero) THEN
            LET sell_cost == RMul(trade.quantity, pos.avg_price)
                realized_pnl == RSub(trade.total, sell_cost)
                q == RSub(pos.quantity, trade.quantity)
            IN  [pos EXCEPT !.realized_pnl = RAdd(@, realized_pnl),
                            !.quantity = IF RLe(q, Zero) THEN Zero ELSE q]
          ELSE pos
    IN  [p1 EXCEPT !.total_commission = RAdd(@, trade.commission)]

\* A position update that books realized P&L net of the sell's commission.
Position_update_position_net(pos, trade) ==
    LET p1 ==
          IF trade.side = "BUY" THEN
            LET new_total_cost == RAdd(pos.total_cost, trade.total)
                new_quantity == RAdd(pos.quantity, trade.quantity)
            IN  [pos EXCEPT
                   !.avg_price = IF RGt(new_quantity, Zero)
                                 THEN RDiv(new_total_cost, new_quantity) ELSE @,
                   !.quantity = new_quantity,
                   !.total_cost = new_total_cost]
          ELSE IF RGt(pos.quantity, Zero) THEN
            LET sell_cost == RMul(trade.quantity, pos.avg_price)
                realized_pnl == RSub(RSub(trade.total, sell_cost), trade.commission)
                q == RSub(pos.quantity, trade.quantity)
            IN  IF RLe(q, Zero)
                THEN [pos EXCEPT !.realized_pnl = RAdd(@, realized_pnl),
                                 !.quantity = Zero, !.total_cost = Zero,
                                 !.avg_price = Zero]
                ELSE [pos EXCEPT !.realized_pnl = RAdd(@, realized_pnl),
                                 !.quantity = q,
                                 !.total_cost = RSub(@, sell_cost)]
          ELSE pos
    IN  [p1 EXCEPT !.total_commission = RAdd(@, trade.commission)]

\* A position update whose average price is the price of the last buy.
Position_update_position_last_price(pos, trade) ==
    LET p1 ==
          IF trade.side = "BUY" THEN
            [pos EXCEPT !.avg_price = trade.price,
                        !.quantity = RAdd(@, trade.quantity),
                        !.total_cost = RAdd(@, trade.total)]
          ELSE IF RGt(pos.quantity, Zero) THEN
            LET sell_cost == RMul(trade.quantity, pos.avg_price)
                realized_pnl == RSub(trade.total, sell_cost)
                q == RSub(pos.quantity, trade.quantity)
            IN  IF RLe(q, Zero)
                THEN [pos EXCEPT !.realized_pnl = RAdd(@, realized_pnl),
                                 !.quantity = Zero, !.total_cost = Zero,
                                 !.avg_price = Zero]
                ELSE [pos EXCEPT !.realized_pnl = RAdd(@, realized_pnl),
                                 !.quantity = q,
                                 !.total_cost = RSub(@, sell_cost)]
          ELSE pos
    IN  [p1 EXCEPT !.total_commission = RAdd(@, trade.commission)]

\* A position update that does not stop at 0 when more is sold than held.
Position_update_position_unclamped(pos, trade) ==
    LET p1 ==
          IF trade.side = "BUY" THEN
            LET new_total_cost == RAdd(pos.total_cost, trade.total)
                new_quantity == RAdd(pos.quantity, trade.quantity)
            IN  [pos EXCEPT
                   !.avg_price = IF RGt(new_quantity, Zero)
                                 THEN RDiv(new_total_cost, new_quantity) ELSE @,
                   !.quantity = new_quantity,
                   !.total_cost = new_total_cost]
          ELSE IF RGt(pos.quantity, Zero) THEN
            LET sell_cost == RMul(trade.quantity, pos.avg_price)
                realized_pnl == RSub(trade.total, sell_cost)
            IN  [pos EXCEPT !.realized_pnl = RAdd(@, realized_pnl),
                            !.quantity = RSub(@, trade.quantity),
                            !.total_cost = RSub(@, sell_cost)]
          ELSE pos
    IN  [p1 EXCEPT !.total_commission = RAdd(@, trade.commission)]

Position_update_position(pos, trade) ==
    LET p1 ==
          IF trade.side = "BUY" THEN
            LET new_total_cost == RAdd(pos.total_cost, trade.total)
                new_quantity == RAdd(pos.quantity, trade.quantity)
            IN  [pos EXCEPT
                   !.avg_price = IF RGt(new_quantity, Zero)
                                 THEN RDiv(new_total_cost, new_quantity) ELSE @,
                   !.quantity = new_quantity,
                   !.total_cost = new_total_cost]
          ELSE IF RGt(pos.quantity, Zero) THEN
            LET sell_cost == RMul(trade.quantity, pos.avg_price)
                realized_pnl == RSub(trade.total, sell_cost)
                q == RSub(pos.quantity, trade.quantity)
            IN  IF RLe(q, Zero)
                THEN [pos EXCEPT !.realized_pnl = RAdd(@, realized_pnl),
                                 !.quantity = Zero, !.total_cost = Zero,
                                 !.avg_price = Zero]
                ELSE [pos EXCEPT !.realized_pnl = RAdd(@, realized_pnl),
                                 !.quantity = q,
                                 !.total_cost = RSub(@, sell_cost)]
          ELSE pos
    IN  [p1 EXCEPT !.total_commission = RAdd(@, trade.commission)]

Position_calculate_unrealized_pnl(pos, current_price) ==
    IF RGt(pos.quantity, Zero) /\ RGt(current_price, Zero)
    THEN [pos EXCEPT !.unrealized_pnl =
                 RSub(RMul(pos.quantity, current_price), pos.total_cost)]
    ELSE [pos EXCEPT !.unrealized_pnl = Zero]

\* dict update d[k] = v
Put(d, k, v) == [x \in DOMAIN d \cup {k} |-> IF x = k THEN v ELSE d[x]]

RECURSIVE SumPositionValue(_, _)
SumPositionValue(ex, syms) ==
    IF syms = {} THEN Zero
    ELSE LET s == CHOOSE x \in syms : TRUE
             rest == SumPositionValue(ex, syms \ {s})
         IN  IF RGt(ex.positions[s].quantity, Zero) /\ s \in DOMAIN ex.current_prices
             THEN RAdd(rest, RMul(ex.positions[s].quantity, ex.current_prices[s]))
             ELSE rest

get_position_value(ex) == SumPositionValue(ex, DOMAIN ex.positions)

get_total_value(ex) == RAdd(ex.available_balance, get_position_value(ex))

get_total_pnl(ex) == RSub(get_total_value(ex), initial_balance)

\* max(self.total_trades, 1)
Max(a, b) == IF a >= b THEN a ELSE b

get_portfolio_summary(ex) ==
    LET total_pnl == get_total_pnl(ex)
    IN  [initial_balance |-> initial_balance,
         available_balance |-> ex.available_balance,
         position_value |-> get_position_value(ex),
         total_value |-> get_total_value(ex),
         total_pnl |-> total_pnl,
         total_return_pct |-> RMul(RDiv(total_pnl, initial_balance), R(100)),
         total_trades |-> ex.total_trades,
         winning_trades |-> ex.winning_trades,
         losing_trades |-> ex.losing_trades,
         win_rate |-> RMul(RDiv(R(ex.winning_trades), R(Max(ex.total_trades, 1))),
                           R(100)),
         total_commission |-> ex.total_commission]

\* An admission whose position limit is exclusive.
_risk_check_strict(ex, symbol, side, quantity, price) ==
    LET order_value == RMul(quantity, price)
        required_balance == RMul(order_value, RAdd(One, ex.commission_rate))
        position_limit == RMul(get_total_value(ex), max_position_size)
    IN  IF RLt(order_value, R(MIN_TRADE_AMOUNT)) THEN FALSE
        ELSE IF side = "BUY" /\ RLt(ex.available_balance, required_balance) THEN FALSE
        ELSE IF side # "BUY" /\ (symbol \notin DOMAIN ex.positions
                                 \/ RLt(ex.positions[symbol].quantity, quantity))
             THEN FALSE
        ELSE IF side = "BUY" /\ RGe(order_value, position_limit) THEN FALSE
        ELSE TRUE

_risk_check(ex, symbol, side, quantity, price) ==
    LET order_value == RMul(quantity, price)
        required_balance == RMul(order_value, RAdd(One, ex.commission_rate))
        position_limit == RMul(get_total_value(ex), max_position_size)
    IN  IF RLt(order_value, R(MIN_TRADE_AMOUNT)) THEN FALSE
        ELSE IF side = "BUY" /\ RLt(ex.available_balance, required_balance) THEN FALSE
        ELSE IF side # "BUY" /\ (symbol \notin DOMAIN ex.positions
                                 \/ RLt(ex.positions[symbol].quantity, quantity))
             THEN FALSE
        ELSE IF side = "BUY" /\ RGt(order_value, position_limit) THEN FALSE
        ELSE TRUE

\* A ledger update that moves the notional only, without the commission.
_update_balance_and_position_gross(ex, trade) ==
    LET symbol == trade.symbol
        old == IF symbol \in DOMAIN ex.positions THEN ex.positions[symbol] ELSE Position
        position == Position_update_position(old, trade)
        e1 == [ex EXCEPT !.positions = Put(@, symbol, position)]
    IN  IF trade.side = "BUY"
        THEN [e1 EXCEPT !.available_balance = RSub(@, trade.total)]
        ELSE LET e2 == [e1 EXCEPT !.available_balance = RAdd(@, trade.total)]
             IN  IF RGt(position.realized_pnl, Zero)
                 THEN [e2 EXCEPT !.winning_trades = @ + 1]
                 ELSE [e2 EXCEPT !.losing_trades = @ + 1]

_update_balance_and_position(ex, trade) ==
    LET symbol == trade.symbol
        old == IF symbol \in DOMAIN ex.positions THEN ex.positions[symbol] ELSE Position
        position == Position_update_position(old, trade)
        e1 == [ex EXCEPT !.positions = Put(@, symbol, position)]
    IN  IF trade.side = "BUY"
        THEN [e1 EXCEPT !.available_balance =
                    RSub(@, RAdd(trade.total, trade.commission))]
        ELSE LET e2 == [e1 EXCEPT !.available_balance =
                               RAdd(@, RSub(trade.total, trade.commission))]
             IN  IF RGt(position.realized_pnl, Zero)
                 THEN [e2 EXCEPT !.winning_trades = @ + 1]
                 ELSE [e2 EXCEPT !.losing_trades = @ + 1]

\* The slippage adjustment at the head of _execute_order.
fill_price(ex, order, p) ==
    IF order.side = "BUY" THEN RMul(p, RAdd(One, ex.slippage))
    ELSE RMul(p, RSub(One, ex.slippage))

\* _execute_order, "create the trade record" (lines 286-298).
make_trade(ex, order, execution_price0) ==
    LET execution_price == fill_price(ex, order, execution_price0)
        trade_value == RMul(order.quantity, execution_price)
        commission == RMul(trade_value, ex.commission_rate)
    IN  Trade(order.id, order.symbol, order.side, order.quantity,
              execution_price, commission)

\* _execute_order, "update the order's status" (lines 300-307).
mark_filled(order, trade) ==
    [order EXCEPT !.status = "FILLED",
                  !.filled_quantity = order.quantity,
                  !.remaining_quantity = Zero,
                  !.avg_fill_price = trade.price,
                  !.commission = trade.commission,
                  !.fills = Append(@, trade)]

\* log_ok: whether the write of the trade record to the trade log succeeds
\* (TradingLogger.log_trade opens and appends to a file and can raise).
_execute_order(ex, id, execution_price0, log_ok) ==
    LET order == ex.orders[id]
        trade == make_trade(ex, order, execution_price0)
        commission == trade.commission
        e1 == [ex EXCEPT !.orders[id] = mark_filled(order, trade)]
        e2 == _update_balance_and_position(e1, trade)
        e3 == [e2 EXCEPT !.trades = Append(@, trade),
                         !.total_trades = @ + 1,
                         !.total_commission = RAdd(@, commission)]
    IN  IF log_ok THEN e3
        ELSE [e3 EXCEPT !.orders[id].status = "REJECTED"]

\* A trigger that holds on every tick.
should_execute_always(order, current_price) == TRUE

\* A trigger that knows LIMIT orders only.
should_execute_limit_only(order, current_price) ==
    /\ order.order_type = "LIMIT"
    /\ \/ order.side = "BUY" /\ RLe(current_price, order.price)
       \/ order.side = "SELL" /\ RGe(current_price, order.price)

should_execute(order, current_price) ==
    CASE order.order_type = "LIMIT" ->
           \/ order.side = "BUY" /\ RLe(current_price, order.price)
           \/ order.side = "SELL" /\ RGe(current_price, order.price)
      [] order.order_type = "STOP_LOSS" ->
           /\ Truthy(order.stop_price)
           /\ \/ order.side = "BUY" /\ RGe(current_price, order.stop_price)
              \/ order.side = "SELL" /\ RLe(current_price, order.stop_price)
      [] order.order_type = "TAKE_PROFIT" ->
           /\ Truthy(order.price)
           /\ \/ order.side = "BUY" /\ RLe(current_price, order.price)
              \/ order.side = "SELL" /\ RGe(current_price, order.price)
      [] OTHER -> FALSE

\* Every execution at the tick price.
execution_price_market(order, current_price) == current_price

execution_price_of(order, current_price) ==
    IF order.order_type \in {"LIMIT", "TAKE_PROFIT"} THEN order.price
    ELSE current_price

\* A scan list without the status test: every order of the symbol.
orders_of_symbol(ex, symbol) ==
    SelectSeq([i \in 1..Len(ex.orders) |-> i],
              LAMBDA i : ex.orders[i].symbol = symbol)

\* A scan list without the symbol test: the PENDING orders of every symbol.
pending_orders_all_symbols(ex, symbol) ==
    SelectSeq([i \in 1..Len(ex.orders) |-> i],
              LAMBDA i : ex.orders[i].status = "PENDING")

\* The list comprehension at the head of _check_pending_orders.
pending_orders(ex, symbol) ==
    SelectSeq([i \in 1..Len(ex.orders) |-> i],
              LAMBDA i : ex.orders[i].status = "PENDING"
                         /\ ex.orders[i].symbol = symbol)

\* One iteration of the loop of _check_pending_orders.
check_one(ex, id, current_price, log_ok) ==
    IF should_execute(ex.orders[id], current_price)
    THEN _execute_order(ex, id, execution_price_of(ex.orders[id], current_price), log_ok)
    ELSE ex

RECURSIVE check_loop(_, _, _, _)
check_loop(ex, ids, current_price, fails) ==
    IF ids = <<>> THEN ex
    ELSE check_loop(check_one(ex, Head(ids), current_price, Head(ids) \notin fails),
                    Tail(ids), current_price, fails)

\* fails: the orders whose trade-log write raises during this scan.
_check_pending_orders(ex, symbol, current_price, fails) ==
    check_loop(ex, pending_orders(ex, symbol), current_price, fails)

\* The executor as the scan of a tick finds it when it reaches order id:
\* the orders listed before id have been evaluated (a failing log write
\* changes an order's status, not the ledger).
scan_state(ex, id, current_price) ==
    check_loop(ex, SelectSeq(pending_orders(ex, ex.orders[id].symbol),
                             LAMBDA j : j < id),
               current_price, {})

\* What a fill of the order at execution price p takes from the balance.
fill_cost(ex, order, p) ==
    LET trade_value == RMul(order.quantity, fill_price(ex, order, p))
    IN  RAdd(trade_value, RMul(trade_value, ex.commission_rate))

update_price(ex, symbol, price, fails) ==
    LET e1 == [ex EXCEPT !.current_prices = Put(@, symbol, price)]
        e2 == IF symbol \in DOMAIN e1.positions
              THEN [e1 EXCEPT !.positions[symbol] =
                         Position_calculate_unrealized_pnl(@, price)]
              ELSE e1
    IN  _check_pending_orders(e2, symbol, price, fails)

\* The result of a call: the object after it and the value returned
\* (place_order: the new order's id, 0 for None).
Result(ex, ret) == [ex |-> ex, ret |-> ret]

\* A submission that leaves every admitted order resting, MARKET included.
place_order_resting(ex, symbol, side, order_type, quantity, price0, stop_price, log_ok) ==
    IF RLe(quantity, Zero) THEN Result(ex, 0)
    ELSE IF symbol \notin DOMAIN ex.current_prices THEN Result(ex, 0)
    ELSE
      LET price == IF order_type = "MARKET" THEN ex.current_prices[symbol] ELSE price0
      IN  IF order_type # "MARKET" /\ IsNone(price0) THEN Result(ex, 0)
          ELSE IF ~_risk_check(ex, symbol, side, quantity, price) THEN Result(ex, 0)
          ELSE LET id == Len(ex.orders) + 1
               IN  Result([ex EXCEPT !.orders = Append(@,
                             Order(id, symbol, side, order_type, quantity, price,
                                   stop_price))], id)

place_order(ex, symbol, side, order_type, quantity, price0, stop_price, log_ok) ==
    IF RLe(quantity, Zero) THEN Result(ex, 0)
    ELSE IF symbol \notin DOMAIN ex.current_prices THEN Result(ex, 0)
    ELSE
      LET current_price == ex.current_prices[symbol]
          price == IF order_type = "MARKET" THEN current_price ELSE price0
      IN  IF order_type # "MARKET" /\ IsNone(price0) THEN Result(ex, 0)
          ELSE IF ~_risk_check(ex, symbol, side, quantity, price) THEN Result(ex, 0)
          ELSE
            LET id == Len(ex.orders) + 1
                order == Order(id, symbol, side, order_type, quantity, price, stop_price)
                e1 == [ex EXCEPT !.orders = Append(@, order)]
            IN  IF order_type = "MARKET"
                THEN Result(_execute_order(e1, id, current_price, log_ok), id)
                ELSE Result(e1, id)

\* TradingSignal (trading_strategy.py); NoSignal stands for None.
TradingSignal(signal_type, strength, price) ==
    [signal_type |-> signal_type, strength |-> strength, price |-> price]

NoSignal == TradingSignal("None", None, None)

\* A SELL signal that sells position_size_pct of the holding.
execute_signal_fraction(ex, signal, symbol, position_size_pct, log_ok) ==
    IF signal.signal_type \notin {"BUY", "SELL"} THEN Result(ex, 0)
    ELSE IF symbol \notin DOMAIN ex.current_prices
            \/ ~Truthy(ex.current_prices[symbol]) THEN Result(ex, 0)
    ELSE IF signal.signal_type = "BUY" THEN
           LET quantity == RDiv(RMul(ex.available_balance, position_size_pct),
                                ex.current_prices[symbol])
           IN  IF RLt(RMul(quantity, ex.current_prices[symbol]), R(MIN_TRADE_AMOUNT))
               THEN Result(ex, 0)
               ELSE place_order(ex, symbol, "BUY", "MARKET", quantity, None,
                                None, log_ok)
    ELSE IF symbol \notin DOMAIN ex.positions
            \/ RLe(ex.positions[symbol].quantity, Zero)
         THEN Result(ex, 0)
         ELSE place_order(ex, symbol, "SELL", "MARKET",
                          RMul(ex.positions[symbol].quantity, position_size_pct),
                          None, None, log_ok)

execute_signal(ex, signal, symbol, position_size_pct, log_ok) ==
    IF signal.signal_type \notin {"BUY", "SELL"} THEN Result(ex, 0)
    ELSE IF symbol \notin DOMAIN ex.current_prices
            \/ ~Truthy(ex.current_prices[symbol]) THEN Result(ex, 0)
    ELSE
      LET current_price == ex.current_prices[symbol]
      IN  IF signal.signal_type = "BUY" THEN
            LET max_investment == RMul(ex.available_balance, position_size_pct)
                quantity == RDiv(max_investment, current_price)
            IN  IF RLt(RMul(quantity, current_price), R(MIN_TRADE_AMOUNT))
                THEN Result(ex, 0)
                ELSE place_order(ex, symbol, "BUY", "MARKET", quantity, None,
                                 None, log_ok)
          ELSE
            IF symbol \notin DOMAIN ex.positions
               \/ RLe(ex.positions[symbol].quantity, Zero)
            THEN Result(ex, 0)
            ELSE place_order(ex, symbol, "SELL", "MARKET",
                             ex.positions[symbol].quantity, None, None, log_ok)

\* A cancellation without the status test.
cancel_order_any_status(ex, order_id) ==
    IF order_id \in 1..Len(ex.orders)
    THEN Result([ex EXCEPT !.orders[order_id].status = "CANCELLED"], TRUE)
    ELSE Result(ex, FALSE)

cancel_order(ex, order_id) ==
    IF order_id \in 1..Len(ex.orders)
    THEN IF ex.orders[order_id].status = "PENDING"
         THEN Result([ex EXCEPT !.orders[order_id].status = "CANCELLED"], TRUE)
         ELSE Result(ex, FALSE)
    ELSE Result(ex, FALSE)

\* A list of open orders that misses every second one.
get_open_orders_alternate(ex) ==
    LET open == SelectSeq([i \in 1..Len(ex.orders) |-> i],
                          LAMBDA i : ex.orders[i].status = "PENDING")
    IN  [k \in 1..((Len(open) + 1) \div 2) |-> open[2 * k - 1]]

get_open_orders(ex) ==
    SelectSeq([i \in 1..Len(ex.orders) |-> i],
              LAMBDA i : ex.orders[i].status = "PENDING")

\* TradingBot.stop, lines 296-298: the loop that cancels the listed orders.
RECURSIVE cancel_orders(_, _)
cancel_orders(ex, open_orders) ==
    IF open_orders = <<>> THEN ex
    ELSE cancel_orders(cancel_order(ex, Head(open_orders)).ex, Tail(open_orders))

\* TradingBot.stop as far as it acts on the executor.
TradingBot_stop(ex) == cancel_orders(ex, get_open_orders(ex))

----------------------------------------------------------------------------
(* RiskManager (risk_manager.py).  Dates are day numbers; a dict lookup    *)
(* d.get(day, 0) is Get(d, day).                                           *)

Get(d, k) == IF k \in DOMAIN d THEN d[k] ELSE 0

RiskManager ==
    [daily_trades |-> daily_trades, daily_loss |-> daily_loss,
     stop_loss_orders |-> stop_loss_orders,
     take_profit_orders |-> take_profit_orders]

max_daily_trades == MAX_DAILY_TRADES
max_daily_loss_pct == Frac(MAX_DAILY_LOSS_PCT, 100)

_check_position_limit(symbol, position_value) ==
    LET max_position_value == RMul(R(INITIAL_BALANCE), MAX_POSITION_SIZE)
    IN  ~RGt(position_value, max_position_value)

LossOf(rm, day) == IF day \in DOMAIN rm.daily_loss THEN rm.daily_loss[day] ELSE Zero

\* An admission that counts the trades of every date on record.
can_trade_any_day(rm, day, symbol, side, quantity, current_price) ==
    /\ \A d \in DOMAIN rm.daily_trades : rm.daily_trades[d] < max_daily_trades
    /\ ~RGe(LossOf(rm, day), max_daily_loss_pct)
    /\ ~(side = "BUY" /\ Truthy(quantity) /\ Truthy(current_price)
         /\ ~_check_position_limit(symbol, RMul(quantity, current_price)))

can_trade(rm, day, symbol, side, quantity, current_price) ==
    IF Get(rm.daily_trades, day) >= max_daily_trades THEN FALSE
    ELSE IF RGe(LossOf(rm, day), max_daily_loss_pct) THEN FALSE
    ELSE IF side = "BUY" /\ Truthy(quantity) /\ Truthy(current_price)
            /\ ~_check_position_limit(symbol, RMul(quantity, current_price))
         THEN FALSE
    ELSE TRUE

record_trade(rm, day, symbol, side, quantity, price) ==
    [rm EXCEPT !.daily_trades = Put(@, day, Get(@, day) + 1)]

stop_loss_pct == Frac(STOP_LOSS_PCT, 100)
take_profit_pct == Frac(TAKE_PROFIT_PCT, 100)

\* del d[k]
Del(d, k) == [x \in DOMAIN d \ {k} |-> d[x]]

\* A trigger that leaves the stop armed.
_trigger_stop_loss_keep(rm, symbol, current_price) == rm

_trigger_stop_loss(rm, symbol, current_price) ==
    IF symbol \in DOMAIN rm.stop_loss_orders
    THEN [rm EXCEPT !.stop_loss_orders = Del(@, symbol)]
    ELSE rm

_trigger_take_profit(rm, symbol, current_price) ==
    IF symbol \in DOMAIN rm.take_profit_orders
    THEN [rm EXCEPT !.take_profit_orders = Del(@, symbol)]
    ELSE rm

\* Which of the two levels check_position_risk finds crossed.
StopLossHit(rm, symbol, current_price) ==
    /\ symbol \in DOMAIN rm.stop_loss_orders
    /\ RLe(current_price, rm.stop_loss_orders[symbol])

TakeProfitHit(rm, symbol, current_price) ==
    /\ symbol \in DOMAIN rm.take_profit_orders
    /\ RGe(current_price, rm.take_profit_orders[symbol])

check_position_risk(rm, symbol, current_price) ==
    LET rm1 == IF StopLossHit(rm, symbol, current_price)
               THEN _trigger_stop_loss(rm, symbol, current_price)
               ELSE rm
    IN  IF TakeProfitHit(rm1, symbol, current_price)
        THEN _trigger_take_profit(rm1, symbol, current_price)
        ELSE rm1

set_stop_loss(rm, symbol, entry_price, side) ==
    LET stop_price == IF side = "LONG"
                      THEN RMul(entry_price, RSub(One, stop_loss_pct))
                      ELSE RMul(entry_price, RAdd(One, stop_loss_pct))
    IN  [rm EXCEPT !.stop_loss_orders = Put(@, symbol, stop_price)]

set_take_profit(rm, symbol, entry_price, side) ==
    LET target_price == IF side = "LONG"
                        THEN RMul(entry_price, RAdd(One, take_profit_pct))
                        ELSE RMul(entry_price, RSub(One, take_profit_pct))
    IN  [rm EXCEPT !.take_profit_orders = Put(@, symbol, target_price)]

\* reset_daily_limits called on day `day`: yesterday's buckets are dropped.
reset_daily_limits(rm, day) ==
    [rm EXCEPT !.daily_trades = Del(@, day - 1),
               !.daily_loss = Del(@, day - 1)]

\* The RiskManager written back.
StoreRisk(rm) ==
    /\ daily_trades' = rm.daily_trades
    /\ daily_loss' = rm.daily_loss
    /\ stop_loss_orders' = rm.stop_loss_orders
    /\ take_profit_orders' = rm.take_profit_orders

----------------------------------------------------------------------------
(* Strategies (trading_strategy.py).  A DataFrame of candles is the        *)
(* sequence of its close prices; NaN is None, and a comparison with NaN is *)
(* false.                                                                  *)

StrategyObjects == {"DualMAStrategy", "RSIStrategy", "MACDStrategy", "CombinedStrategy"}
NoStrategy == "None"

\* StrategyManager._init_default_strategies
default_strategies ==
    [n \in {"dual_ma", "rsi", "macd", "combined"} |->
       CASE n = "dual_ma" -> "DualMAStrategy"
         [] n = "rsi" -> "RSIStrategy"
         [] n = "macd" -> "MACDStrategy"
         [] n = "combined" -> "CombinedStrategy"]

StrategyManager == [strategies |-> strategies, active_strategy |-> active_strategy]

add_strategy(sm, name, strategy) ==
    [sm EXCEPT !.strategies = Put(@, name, strategy)]

remove_strategy(sm, name) ==
    IF name \in DOMAIN sm.strategies
    THEN [sm EXCEPT !.strategies = Del(@, name)]
    ELSE sm

\* A selection by dict.get: an unknown name selects None.
set_active_strategy_get(sm, name) ==
    IF name \in DOMAIN sm.strategies
    THEN Result([sm EXCEPT !.active_strategy = sm.strategies[name]], TRUE)
    ELSE Result([sm EXCEPT !.active_strategy = NoStrategy], FALSE)

set_active_strategy(sm, name) ==
    IF name \in DOMAIN sm.strategies
    THEN Result([sm EXCEPT !.active_strategy = sm.strategies[name]], TRUE)
    ELSE Result(sm, FALSE)

\* StrategyManager.generate_signal; outputs: what generate_signal(data) of
\* each strategy object returns.
StrategyManager_generate_signal(sm, outputs) ==
    IF sm.active_strategy # NoStrategy
    THEN outputs[sm.active_strategy]
    ELSE NoSignal

\* The fields of a strategy object.
TradingStrategy(s) ==
    [signals_history |-> signals_history[s], last_signal |-> last_signal[s],
     last_ma_cross |-> last_ma_cross]

HISTORY_LIMIT == 1000

add_signal(st, signal) ==
    LET h == Append(st.signals_history, signal)
    IN  [st EXCEPT !.signals_history =
                      IF Len(h) > HISTORY_LIMIT
                      THEN SubSeq(h, Len(h) - HISTORY_LIMIT + 1, Len(h))
                      ELSE h,
                   !.last_signal = signal]

validate_data(data) == Len(data) # 0

NaN == None
NLe(x, y) == ~IsNone(x) /\ ~IsNone(y) /\ RLe(x, y)
NGe(x, y) == ~IsNone(x) /\ ~IsNone(y) /\ RGe(x, y)
NLt(x, y) == ~IsNone(x) /\ ~IsNone(y) /\ RLt(x, y)
NGt(x, y) == ~IsNone(x) /\ ~IsNone(y) /\ RGt(x, y)

RECURSIVE SumSeq(_, _, _)
SumSeq(xs, a, b) == IF a > b THEN Zero ELSE RAdd(xs[a], SumSeq(xs, a + 1, b))

\* data['close'].rolling(window).mean() at position i (1..Len).
rolling_mean(close, window, i) ==
    IF i < window THEN NaN
    ELSE RDiv(SumSeq(close, i - window + 1, i), R(window))

RAbs(x) == IF RLt(x, Zero) THEN RNeg(x) ELSE x
RMin(x, y) == IF RLt(y, x) THEN y ELSE x

\* The DualMAStrategy instance: DualMAStrategy(short_period=2, long_period=3),
\* with the configured signal_threshold of 0.1 (percent).
short_period == 2
long_period == 3
signal_threshold == Frac(1, 10)

\* The relative gap of the two averages and the strength taken from it.
ma_gap(current_short, current_long) ==
    RDiv(RAbs(RSub(current_short, current_long)), current_long)

\* A strength that is not capped at 1.
ma_strength_uncapped(current_short, current_long) ==
    RMul(ma_gap(current_short, current_long), R(10))

ma_strength(current_short, current_long) ==
    RMin(RMul(ma_gap(current_short, current_long), R(10)), One)

\* Lines 86-139 of DualMAStrategy.generate_signal: the signal computed from
\* the DataFrame and the kind of cross found.
DualMA_signal(data) ==
    IF ~validate_data(data) \/ Len(data) < Max(short_period, long_period)
    THEN [signal |-> NoSignal, cross |-> "None"]
    ELSE
      LET n == Len(data)
          current_short == rolling_mean(data, short_period, n)
          current_long == rolling_mean(data, long_period, n)
          prev_short == IF n > 1 THEN rolling_mean(data, short_period, n - 1)
                        ELSE current_short
          prev_long == IF n > 1 THEN rolling_mean(data, long_period, n - 1)
                       ELSE current_long
          current_price == data[n]
          over == NGt(ma_gap(current_short, current_long),
                      RDiv(signal_threshold, R(100)))
      IN  IF NLe(prev_short, prev_long) /\ NGt(current_short, current_long) /\ over
          THEN [signal |-> TradingSignal("BUY",
                               ma_strength(current_short, current_long),
                               current_price),
                cross |-> "golden"]
          ELSE IF NGe(prev_short, prev_long) /\ NLt(current_short, current_long)
                  /\ over
          THEN [signal |-> TradingSignal("SELL",
                               ma_strength(current_short, current_long),
                               current_price),
                cross |-> "death"]
          ELSE [signal |-> NoSignal, cross |-> "None"]

\* Lines 120, 139, 141-148: a signal found is recorded and returned.
DualMA_emit(st, out) ==
    IF out.signal # NoSignal
    THEN Result(add_signal([st EXCEPT !.last_ma_cross = out.cross], out.signal),
                out.signal)
    ELSE Result(st, NoSignal)

\* DualMAStrategy.generate_signal on the strategy object st.
DualMA_generate_signal(st, data) == DualMA_emit(st, DualMA_signal(data))

\* The RSIStrategy instance: RSIStrategy(period=2), with the configured
\* overbought and oversold levels.
period == 2
overbought == 70
oversold == 30

\* prices.diff() at position i; the first position has no predecessor.
Series_diff(prices, i) == IF i < 2 THEN NaN ELSE RSub(prices[i], prices[i - 1])

\* delta.where(delta > 0, 0) and -delta.where(delta < 0, 0) at position i.
gain_of(prices, i) ==
    LET delta == Series_diff(prices, i) IN IF NGt(delta, Zero) THEN delta ELSE Zero

loss_of(prices, i) ==
    LET delta == Series_diff(prices, i) IN IF NLt(delta, Zero) THEN RNeg(delta) ELSE Zero

\* RSIStrategy._calculate_rsi at position i.  A zero average loss makes rs
\* infinite (rsi 100), or NaN when the average gain is zero as well.
_calculate_rsi(prices, window, i) ==
    IF i < window THEN NaN
    ELSE LET gain == rolling_mean([k \in 1..Len(prices) |-> gain_of(prices, k)],
                                  window, i)
             loss == rolling_mean([k \in 1..Len(prices) |-> loss_of(prices, k)],
                                  window, i)
         IN  IF loss = Zero
             THEN IF gain = Zero THEN NaN ELSE R(100)
             ELSE RSub(R(100), RDiv(R(100), RAdd(One, RDiv(gain, loss))))

\* Lines 167-199 of RSIStrategy.generate_signal: the signal computed from
\* the DataFrame.
RSI_signal(data) ==
    IF ~validate_data(data) \/ Len(data) < period + 1 THEN NoSignal
    ELSE
      LET n == Len(data)
          current_rsi == _calculate_rsi(data, period, n)
          prev_rsi == IF n > 1 THEN _calculate_rsi(data, period, n - 1)
                      ELSE current_rsi
          current_price == data[n]
      IN  IF NGe(prev_rsi, R(oversold)) /\ NLt(current_rsi, R(oversold))
          THEN TradingSignal("BUY",
                   RMin(RDiv(RSub(R(oversold), current_rsi), R(oversold)), One),
                   current_price)
          ELSE IF NLe(prev_rsi, R(overbought)) /\ NGt(current_rsi, R(overbought))
          THEN TradingSignal("SELL",
                   RMin(RDiv(RSub(current_rsi, R(overbought)),
                             RSub(R(100), R(overbought))), One),
                   current_price)
          ELSE NoSignal

\* The MACDStrategy instance: MACDStrategy(fast_period=2, slow_period=3,
\* signal_period=2).
fast_period == 2
slow_period == 3
signal_period == 2

\* xs.ewm(span=span).mean() at position t, with pandas' adjusted weights
\* (1 - alpha)^i, alpha = 2 / (span + 1), from the latest value back:
\* the weighted sum and the sum of the weights, each built up position by
\* position.
RECURSIVE ewm_weighted(_, _, _)
ewm_weighted(xs, w, t) ==
    IF t = 0 THEN Zero ELSE RAdd(xs[t], RMul(w, ewm_weighted(xs, w, t - 1)))

RECURSIVE ewm_weights(_, _)
ewm_weights(w, t) ==
    IF t = 0 THEN Zero ELSE RAdd(One, RMul(w, ewm_weights(w, t - 1)))

ewm_mean(xs, span, t) ==
    LET w == RSub(One, Frac(2, span + 1))
    IN  RDiv(ewm_weighted(xs, w, t), ewm_weights(w, t))

\* MACDStrategy._calculate_macd: the three columns at every position.
_calculate_macd(prices) ==
    LET macd == [t \in 1..Len(prices) |->
                   RSub(ewm_mean(prices, fast_period, t),
                        ewm_mean(prices, slow_period, t))]
        macd_signal == [t \in 1..Len(prices) |-> ewm_mean(macd, signal_period, t)]
    IN  [macd |-> macd, signal |-> macd_signal,
         histogram |-> [t \in 1..Len(prices) |-> RSub(macd[t], macd_signal[t])]]

\* A strength that is not capped at 1.
macd_strength_uncapped(current_histogram, current_signal) ==
    IF current_signal = Zero THEN One
    ELSE RMul(RDiv(RAbs(current_histogram), RAbs(current_signal)), R(2))

\* min(abs(current_histogram) / abs(current_signal) * 2, 1.0); a zero signal
\* line makes the quotient infinite.
macd_strength(current_histogram, current_signal) ==
    IF current_signal = Zero THEN One
    ELSE RMin(RMul(RDiv(RAbs(current_histogram), RAbs(current_signal)), R(2)), One)

\* Lines 236-284 of MACDStrategy.generate_signal: the signal computed from
\* the DataFrame.
MACD_signal(data) ==
    IF ~validate_data(data) \/ Len(data) < Max(slow_period, signal_period) + 1
    THEN NoSignal
    ELSE
      LET n == Len(data)
          macd_data == _calculate_macd(data)
          current_signal == macd_data.signal[n]
          current_histogram == macd_data.histogram[n]
          prev_histogram == IF n > 1 THEN macd_data.histogram[n - 1]
                            ELSE current_histogram
          current_price == data[n]
      IN  IF RLe(prev_histogram, Zero) /\ RGt(current_histogram, Zero)
          THEN TradingSignal("BUY", macd_strength(current_histogram, current_signal),
                             current_price)
          ELSE IF RGe(prev_histogram, Zero) /\ RLt(current_histogram, Zero)
          THEN TradingSignal("SELL", macd_strength(current_histogram, current_signal),
                             current_price)
          ELSE NoSignal

\* Lines 201-203 and 286-288: a signal found is recorded and returned.
Strategy_emit(st, signal) ==
    IF signal # NoSignal
    THEN Result(add_signal(st, signal), signal)
    ELSE Result(st, NoSignal)

\* The CombinedStrategy of the manager: its components and their weights.
combined_strategies == <<"DualMAStrategy", "RSIStrategy", "MACDStrategy">>
combined_weights == <<Frac(1, 2), Frac(3, 10), Frac(1, 5)>>

\* sum(weights) over the components that returned a signal; outputs[i] is
\* what strategies[i].generate_signal(data) returned.
RECURSIVE Combined_sum_weights(_, _)
Combined_sum_weights(outputs, i) ==
    IF i > Len(outputs) THEN Zero
    ELSE IF outputs[i] # NoSignal
         THEN RAdd(combined_weights[i], Combined_sum_weights(outputs, i + 1))
         ELSE Combined_sum_weights(outputs, i + 1)

\* A total that takes the weights of all components, fired or not.
Combined_total_weight_all(outputs) ==
    Combined_sum_weights([i \in 1..Len(outputs) |-> TradingSignal("HOLD", Zero, None)], 1)

Combined_total_weight(outputs) == Combined_sum_weights(outputs, 1)

\* The strength accumulated for one side over the components that fired.
RECURSIVE Combined_strength(_, _, _, _)
Combined_strength(outputs, side, total_weight, i) ==
    IF i > Len(outputs) THEN Zero
    ELSE IF outputs[i] # NoSignal /\ outputs[i].signal_type = side
         THEN RAdd(RMul(outputs[i].strength,
                        RDiv(combined_weights[i], total_weight)),
                   Combined_strength(outputs, side, total_weight, i + 1))
         ELSE Combined_strength(outputs, side, total_weight, i + 1)

\* Lines 322-380 of CombinedStrategy.generate_signal: the final signal.
Combined_signal(data, outputs) ==
    IF ~validate_data(data) THEN NoSignal
    ELSE IF \A i \in 1..Len(outputs) : outputs[i] = NoSignal THEN NoSignal
    ELSE
      LET total_weight == Combined_total_weight(outputs)
          current_price == data[Len(data)]
          buy_strength == Combined_strength(outputs, "BUY", total_weight, 1)
          sell_strength == Combined_strength(outputs, "SELL", total_weight, 1)
      IN  IF RGt(buy_strength, sell_strength) /\ RGt(buy_strength, Frac(1, 2))
          THEN TradingSignal("BUY", buy_strength, current_price)
          ELSE IF RGt(sell_strength, buy_strength) /\ RGt(sell_strength, Frac(1, 2))
          THEN TradingSignal("SELL", sell_strength, current_price)
          ELSE NoSignal

\* Lines 380-387: a final signal is recorded and returned.
Combined_emit(st, final_signal) ==
    IF final_signal # NoSignal
    THEN Result(add_signal(st, final_signal), final_signal)
    ELSE Result(st, NoSignal)

\* CombinedStrategy.generate_signal on the strategy object st.
Combined_generate_signal(st, data, outputs) ==
    Combined_emit(st, Combined_signal(data, outputs))

----------------------------------------------------------------------------
(* TradingBot (main.py): the price callback.                               *)

position_size_pct == Frac(1, 10)
strong_signal == Frac(7, 10)

\* _check_trading_signals on the executor ex and the Risk Gate rm.
\* data_empty: get_recent_klines returned no rows; signal: what the
\* strategy manager's generate_signal returned for the rows.
_check_trading_signals(ex, rm, day, symbol, data_empty, signal) ==
    IF data_empty THEN ex
    ELSE IF signal # NoSignal /\ RGt(signal.strength, strong_signal) THEN
           IF can_trade(rm, day, symbol, signal.signal_type, None, None)
           THEN execute_signal(ex, signal, symbol, position_size_pct, TRUE).ex
           ELSE ex
    ELSE ex

----------------------------------------------------------------------------
(* PortfolioManager (portfolio_manager.py): a second ledger, fed with      *)
(* (symbol, side, quantity, price) by its caller.                          *)

PortfolioManager_init ==
    [available_balance |-> R(INITIAL_BALANCE), positions |-> <<>>,
     trade_history |-> <<>>]

PortfolioManager_get_position(pm, symbol) ==
    IF symbol \in DOMAIN pm.positions THEN pm.positions[symbol]
    ELSE [quantity |-> Zero, avg_price |-> Zero]

\* update_position; a refused sell (False) leaves the zero entry that line
\* 41 created and records nothing.
PortfolioManager_update_position(pm, symbol, side, quantity, price) ==
    LET position == PortfolioManager_get_position(pm, symbol)
        record == [symbol |-> symbol, side |-> side, quantity |-> quantity,
                   price |-> price, total |-> RMul(quantity, price)]
    IN  IF side = "BUY" THEN
          LET total_cost == RAdd(RMul(position.quantity, position.avg_price),
                                 RMul(quantity, price))
              total_quantity == RAdd(position.quantity, quantity)
              new == [quantity |-> total_quantity,
                      avg_price |-> IF RGt(total_quantity, Zero)
                                    THEN RDiv(total_cost, total_quantity)
                                    ELSE position.avg_price]
          IN  [pm EXCEPT !.positions = Put(@, symbol, new),
                         !.available_balance = RSub(@, RMul(quantity, price)),
                         !.trade_history = Append(@, record)]
        ELSE IF RGe(position.quantity, quantity) THEN
          LET q == RSub(position.quantity, quantity)
              new == [quantity |-> q,
                      avg_price |-> IF q = Zero THEN Zero ELSE position.avg_price]
          IN  [pm EXCEPT !.positions = Put(@, symbol, new),
                         !.available_balance = RAdd(@, RMul(quantity, price)),
                         !.trade_history = Append(@, record)]
        ELSE [pm EXCEPT !.positions = Put(@, symbol, position)]

\* The PortfolioManager after being fed the first n trades of ts.
RECURSIVE PortfolioManager_fed(_, _)
PortfolioManager_fed(ts, n) ==
    IF n = 0 THEN PortfolioManager_init
    ELSE PortfolioManager_update_position(PortfolioManager_fed(ts, n - 1),
             ts[n].symbol, ts[n].side, ts[n].quantity, ts[n].price)

----------------------------------------------------------------------------
(* The sequential program: one caller, each call runs to completion.       *)

Store(ex) ==
    /\ orders' = ex.orders
    /\ trades' = ex.trades
    /\ positions' = ex.positions
    /\ current_prices' = ex.current_prices
    /\ available_balance' = ex.available_balance
    /\ total_trades' = ex.total_trades
    /\ winning_trades' = ex.winning_trades
    /\ losing_trades' = ex.losing_trades
    /\ total_commission' = ex.total_commission

\* The threads at rest.
Submitters == {"t1", "t2"}
WsIdle == [pc |-> "idle", symbol |-> "", price |-> None, pending |-> <<>>]
MainIdle == [pc |-> "idle", open |-> <<>>, order_id |-> 0, returned |-> {}]
SubmitIdle == [pc |-> "idle", symbol |-> "", quantity |-> None, admitted |-> FALSE,
               order_id |-> 0, loaded |-> None]

InitCore ==
    /\ orders = <<>>
    /\ trades = <<>>
    /\ positions = <<>>
    /\ current_prices = <<>>
    /\ available_balance = initial_balance
    /\ total_trades = 0
    /\ winning_trades = 0
    /\ losing_trades = 0
    /\ total_commission = Zero
    /\ daily_trades = <<>>
    /\ daily_loss = <<>>
    /\ today = 0
    /\ stop_loss_orders = <<>>
    /\ take_profit_orders = <<>>
    /\ auto_trading_enabled = FALSE
    /\ strategies = default_strategies
    /\ active_strategy = default_strategies["dual_ma"]
    /\ signals_history = [s \in StrategyObjects |-> <<>>]
    /\ last_signal = [s \in StrategyObjects |-> NoSignal]
    /\ last_ma_cross = "None"
    /\ ws = WsIdle
    /\ main = MainIdle
    /\ submit = [t \in Submitters |-> SubmitIdle]

Init ==
    /\ InitCore
    /\ commission_rate = BACKTEST_COMMISSION
    /\ slippage = BACKTEST_SLIPPAGE

\* A tick from the data collector.  fails: the orders whose trade-log write
\* raises during the scan, among those the tick makes fill; logs: the
\* outcomes a log write can have (TRUE: written, FALSE: raised).
UpdatePrice(syms, prices, logs) ==
    \E symbol \in syms, price \in prices :
      \E fails \in SUBSET {i \in 1..Len(orders) :
                             /\ FALSE \in logs
                             /\ orders[i].status = "PENDING"
                             /\ orders[i].symbol = symbol
                             /\ should_execute(orders[i], price)} :
        /\ Store(update_price(Self, symbol, price, fails))
        /\ UNCHANGED <<cfgvars, smvars, rmvars, thvars>>

PlaceOrder(reqs, bound, logs) ==
    \E req \in reqs, log_ok \in logs :
      LET r == place_order(Self, req.symbol, req.side, req.order_type, req.quantity,
                           req.price, req.stop_price, log_ok)
      IN  /\ log_ok \/ (req.order_type = "MARKET" /\ r.ret # 0)
          /\ Len(r.ex.orders) <= bound
          /\ Store(r.ex)
          /\ UNCHANGED <<cfgvars, smvars, rmvars, thvars>>

CancelOrder(bound) ==
    \E order_id \in 1..(bound + 1) :
      /\ Store(cancel_order(Self, order_id).ex)
      /\ UNCHANGED <<cfgvars, smvars, rmvars, thvars>>

Tick == UpdatePrice({DEFAULT_TRADING_PAIR}, TickPrices, BOOLEAN)
Submit == PlaceOrder(Requests, MaxOrders, BOOLEAN)
Cancel == CancelOrder(MaxOrders)

Next == Tick \/ Submit \/ Cancel

vars == <<orders, trades, positions, current_prices, available_balance,
          total_trades, winning_trades, losing_trades, total_commission,
          commission_rate, slippage, daily_trades, daily_loss, today,
          stop_loss_orders, take_profit_orders, auto_trading_enabled,
          strategies, active_strategy, signals_history, last_signal,
          last_ma_cross, ws, main, submit>>

Spec == Init /\ [][Next]_vars

(* The ledger slice: MARKET and LIMIT orders on one symbol with a trade    *)
(* log that can be written, one order deeper than Spec.                    *)
LedgerRequests ==
    MarketRequests({DEFAULT_TRADING_PAIR})
    \cup LimitRequests({DEFAULT_TRADING_PAIR}, Sides)

LedgerTick == UpdatePrice({DEFAULT_TRADING_PAIR}, TickPrices, {TRUE})
LedgerSubmit == PlaceOrder(LedgerRequests, MaxLedgerOrders, {TRUE})
LedgerCancel == CancelOrder(MaxLedgerOrders)

NextLedger == LedgerTick \/ LedgerSubmit \/ LedgerCancel

SpecLedger == Init /\ [][NextLedger]_vars

----------------------------------------------------------------------------
(* The tick race: the WebSocket thread runs update_price statement by      *)
(* statement while the main thread runs TradingBot.stop, which cancels the *)
(* open orders.  The executor takes no lock.  Orders are LIMIT orders      *)
(* placed while both threads are at rest.                                  *)

\* update_price, lines 170-174: the price and the unrealized P&L.
WsReceive ==
    \E price \in TickPrices :
      LET symbol == DEFAULT_TRADING_PAIR
          e1 == [Self EXCEPT !.current_prices = Put(@, symbol, price)]
          e2 == IF symbol \in DOMAIN e1.positions
                THEN [e1 EXCEPT !.positions[symbol] =
                           Position_calculate_unrealized_pnl(@, price)]
                ELSE e1
      IN  /\ ws.pc = "idle"
          /\ main.pc = "idle"
          /\ Store(e2)
          /\ ws' = [ws EXCEPT !.pc = "scan", !.symbol = symbol, !.price = price]
          /\ UNCHANGED <<cfgvars, smvars, rmvars, main, submit>>

\* _check_pending_orders, lines 356-357: the list of PENDING orders.
WsSnapshot ==
    LET list == pending_orders(Self, ws.symbol)
    IN  /\ ws.pc = "scan"
        /\ ws' = IF list = <<>> THEN WsIdle
                  ELSE [ws EXCEPT !.pc = "loop", !.pending = list]
        /\ UNCHANGED <<exvars, cfgvars, smvars, rmvars, main, submit>>

\* _check_pending_orders, lines 359-388: one iteration of the loop.
WsIterate ==
    /\ ws.pc = "loop"
    /\ Store(check_one(Self, Head(ws.pending), ws.price, TRUE))
    /\ ws' = IF Tail(ws.pending) = <<>> THEN WsIdle
              ELSE [ws EXCEPT !.pending = Tail(@)]
    /\ UNCHANGED <<cfgvars, smvars, rmvars, main, submit>>

MainAfter(open, returned) ==
    IF open = <<>> THEN [pc |-> "stopped", open |-> <<>>, order_id |-> 0,
                         returned |-> returned]
    ELSE [pc |-> "cancel", open |-> open, order_id |-> 0, returned |-> returned]

\* TradingBot.stop, lines 285-297: the socket is closed (no further tick is
\* received; one being processed goes on) and the open orders are listed.
MainStop ==
    /\ main.pc = "idle"
    /\ Len(orders) > 0
    /\ main' = MainAfter(get_open_orders(Self), {})
    /\ UNCHANGED <<exvars, cfgvars, smvars, rmvars, ws, submit>>

\* cancel_order, lines 223-225 and 230-235: the tests; False is returned.
MainCancelCheck ==
    LET order_id == Head(main.open)
    IN  /\ main.pc = "cancel"
        /\ main' = IF order_id \in 1..Len(orders)
                       /\ orders[order_id].status = "PENDING"
                    THEN [main EXCEPT !.pc = "cancel_set", !.order_id = order_id]
                    ELSE MainAfter(Tail(main.open), main.returned)
        /\ UNCHANGED <<exvars, cfgvars, smvars, rmvars, ws, submit>>

\* cancel_order, lines 226-229: the status is set and True is returned.
MainCancelSet ==
    /\ main.pc = "cancel_set"
    /\ orders' = [orders EXCEPT ![main.order_id].status = "CANCELLED"]
    /\ main' = MainAfter(Tail(main.open), main.returned \cup {main.order_id})
    /\ UNCHANGED <<trades, positions, current_prices, available_balance,
                   total_trades, winning_trades, losing_trades, total_commission,
                   cfgvars, smvars, rmvars, ws, submit>>

RaceSubmit ==
    /\ ws.pc = "idle"
    /\ main.pc = "idle"
    /\ PlaceOrder(LimitRequests({DEFAULT_TRADING_PAIR}, Sides)
                  \cup MarketRequests({DEFAULT_TRADING_PAIR}), MaxOrders, {TRUE})

NextTickRace ==
    \/ WsReceive \/ WsSnapshot \/ WsIterate
    \/ MainStop \/ MainCancelCheck \/ MainCancelSet
    \/ RaceSubmit

SpecTickRace == Init /\ [][NextTickRace]_vars

----------------------------------------------------------------------------
(* The submission race: two threads of the caller each run one             *)
(* place_order for a MARKET BUY, on different symbols, statement by        *)
(* statement.  Prices are observed before either starts.                   *)

SymbolOf(t) == IF t = "t1" THEN "BTCUSDT" ELSE "ETHUSDT"
NoneStarted == \A t \in Submitters : submit[t] = SubmitIdle
RacePrices == {LimitPrice, R(3000)}

RaceTick ==
    /\ NoneStarted
    /\ UpdatePrice(TRADING_PAIRS, RacePrices, {TRUE})

\* place_order, lines 184-203: validation and _risk_check.
SubmitCheck(t) ==
    \E quantity \in {R(1), R(2)} :
      LET symbol == SymbolOf(t)
          ok == /\ symbol \in DOMAIN current_prices
                /\ _risk_check(Self, symbol, "BUY", quantity, current_prices[symbol])
      IN  /\ submit[t] = SubmitIdle
          /\ submit' = [submit EXCEPT ![t] =
                 IF ok THEN [SubmitIdle EXCEPT !.pc = "create", !.symbol = symbol,
                                               !.quantity = quantity,
                                               !.admitted = TRUE]
                 ELSE [SubmitIdle EXCEPT !.pc = "returned", !.symbol = symbol,
                                         !.quantity = quantity]]
          /\ UNCHANGED <<exvars, cfgvars, smvars, rmvars, ws, main>>

\* place_order, lines 206-211, and _execute_order with
\* _update_balance_and_position up to the position (lines 281-338).
SubmitCreate(t) ==
    LET symbol == submit[t].symbol
        id == Len(orders) + 1
        order == Order(id, symbol, "BUY", "MARKET", submit[t].quantity,
                       current_prices[symbol], None)
        trade == make_trade(Self, order, current_prices[symbol])
        old == IF symbol \in DOMAIN positions THEN positions[symbol] ELSE Position
    IN  /\ submit[t].pc = "create"
        /\ orders' = Append(orders, mark_filled(order, trade))
        /\ positions' = Put(positions, symbol, Position_update_position(old, trade))
        /\ submit' = [submit EXCEPT ![t].pc = "load", ![t].order_id = id]
        /\ UNCHANGED <<trades, current_prices, available_balance, total_trades,
                       winning_trades, losing_trades, total_commission,
                       cfgvars, smvars, rmvars, ws, main>>

\* _update_balance_and_position, line 343: available_balance is read ...
SubmitLoad(t) ==
    /\ submit[t].pc = "load"
    /\ submit' = [submit EXCEPT ![t].pc = "store", ![t].loaded = available_balance]
    /\ UNCHANGED <<exvars, cfgvars, smvars, rmvars, ws, main>>

\* ... and written back less the trade's total and commission.
SubmitStore(t) ==
    LET trade == orders[submit[t].order_id].fills[1]
    IN  /\ submit[t].pc = "store"
        /\ available_balance' =
              RSub(submit[t].loaded, RAdd(trade.total, trade.commission))
        /\ submit' = [submit EXCEPT ![t].pc = "record"]
        /\ UNCHANGED <<orders, trades, positions, current_prices, total_trades,
                       winning_trades, losing_trades, total_commission,
                       cfgvars, smvars, rmvars, ws, main>>

\* _execute_order, lines 313-315, and the return of the id.
SubmitRecord(t) ==
    LET trade == orders[submit[t].order_id].fills[1]
    IN  /\ submit[t].pc = "record"
        /\ trades' = Append(trades, trade)
        /\ total_trades' = total_trades + 1
        /\ total_commission' = RAdd(total_commission, trade.commission)
        /\ submit' = [submit EXCEPT ![t].pc = "returned"]
        /\ UNCHANGED <<orders, positions, current_prices, available_balance,
                       winning_trades, losing_trades, cfgvars, smvars, rmvars, ws, main>>

SubmitStep ==
    \E t \in Submitters :
      \/ SubmitCheck(t) \/ SubmitCreate(t) \/ SubmitLoad(t)
      \/ SubmitStore(t) \/ SubmitRecord(t)

NextSubmitRace == RaceTick \/ SubmitStep

SpecSubmitRace == Init /\ [][NextSubmitRace]_vars

----------------------------------------------------------------------------
(* The gate: the Risk Gate's daily count next to the executor.  Trades are *)
(* recorded with the Risk Gate by its record_trade; the caller submits     *)
(* MARKET BUY orders of one unit.                                          *)

GateRequests ==
    [symbol : {DEFAULT_TRADING_PAIR}, side : {"BUY"}, order_type : {"MARKET"},
     quantity : {R(1)}, price : {None}, stop_price : {None}]

RecordTrade ==
    \E side \in Sides :
      LET rm == record_trade(RiskManager, today, DEFAULT_TRADING_PAIR, side,
                             R(1), R(2000))
      IN  /\ Get(daily_trades, today) < MAX_DAILY_TRADES
          /\ daily_trades' = rm.daily_trades
          /\ daily_loss' = rm.daily_loss
          /\ UNCHANGED <<exvars, cfgvars, smvars, today, stop_loss_orders,
                         take_profit_orders, thvars>>

GateTick == UpdatePrice({DEFAULT_TRADING_PAIR}, TickPrices, {TRUE})
GateSubmit == PlaceOrder(GateRequests, MaxOrders, {TRUE})

NextGate == RecordTrade \/ GateTick \/ GateSubmit

SpecGate == Init /\ [][NextGate]_vars

----------------------------------------------------------------------------
(* The ledger without friction: the caller has set the executor's slippage *)
(* to 0 and its commission rate to 0 or left it at 0.1%, and trades one    *)
(* symbol at the market.                                                   *)

ScenarioPrices == {R(50000), R(60000)}
ScenarioQuantities == {Frac(1, 10), Frac(1, 20)}

ScenarioRequests ==
    [symbol : {DEFAULT_TRADING_PAIR}, side : Sides, order_type : {"MARKET"},
     quantity : ScenarioQuantities, price : {None}, stop_price : {None}]

InitScenario ==
    /\ InitCore
    /\ commission_rate \in {Zero, BACKTEST_COMMISSION}
    /\ slippage = Zero

ScenarioTick == UpdatePrice({DEFAULT_TRADING_PAIR}, ScenarioPrices, {TRUE})
ScenarioSubmit == PlaceOrder(ScenarioRequests, MaxScenarioOrders, {TRUE})

NextScenario == ScenarioTick \/ ScenarioSubmit

SpecScenario == InitScenario /\ [][NextScenario]_vars

----------------------------------------------------------------------------
(* The calendar: the Risk Gate's daily buckets while the date observed by  *)
(* datetime.now().date() moves forward.  Trades are recorded by            *)
(* record_trade and the caller may run reset_daily_limits at any time.     *)

Midnight ==
    /\ today < MaxDay
    /\ today' = today + 1
    /\ UNCHANGED <<exvars, cfgvars, smvars, daily_trades, daily_loss, stop_loss_orders,
                   take_profit_orders, thvars>>

ResetDailyLimits ==
    /\ StoreRisk(reset_daily_limits(RiskManager, today))
    /\ UNCHANGED <<exvars, cfgvars, smvars, today, thvars>>

NextDay == RecordTrade \/ Midnight \/ ResetDailyLimits

SpecDay == Init /\ [][NextDay]_vars

----------------------------------------------------------------------------
(* The price callback TradingBot._on_price_update on the WebSocket thread, *)
(* call by call: update_price first, then the Risk Gate's                  *)
(* check_position_risk and the throttled signal check.                     *)

\* Lines 61-76: the executor takes the tick.
CallbackUpdatePrice(syms, prices) ==
    /\ ws.pc = "idle"
    /\ \E symbol \in syms, price \in prices :
         /\ Store(update_price(Self, symbol, price, {}))
         /\ ws' = [WsIdle EXCEPT !.pc = "risk", !.symbol = symbol, !.price = price]
    /\ UNCHANGED <<cfgvars, smvars, rmvars, main, submit>>

\* Lines 79-86.  elapsed: signal_check_interval has passed since the last
\* signal check.
CallbackCheckRisk(signals, bound) ==
    /\ ws.pc = "risk"
    /\ \E elapsed \in BOOLEAN, data_empty \in BOOLEAN, signal \in signals :
         LET rm == check_position_risk(RiskManager, ws.symbol, ws.price)
             ex == IF auto_trading_enabled /\ elapsed
                   THEN _check_trading_signals(Self, rm, today, ws.symbol,
                                               data_empty, signal)
                   ELSE Self
         IN  /\ Len(ex.orders) <= bound
             /\ StoreRisk(rm)
             /\ Store(ex)
    /\ ws' = WsIdle
    /\ UNCHANGED <<cfgvars, smvars, today, main, submit>>

\* start_paper_trading(symbols, auto_trading)
StartPaperTrading ==
    /\ \E auto_trading \in BOOLEAN : auto_trading_enabled' = auto_trading
    /\ UNCHANGED <<exvars, commission_rate, slippage, rmvars, smvars, thvars>>

(* The stops: a caller arms and re-arms stop-loss and take-profit levels   *)
(* for one symbol and rests LIMIT BUY orders while ticks arrive for both   *)
(* symbols; auto trading is off.                                           *)

StopSides == {"LONG", "SHORT"}
StopEntryPrice == LimitPrice
StopTickPrices == {R(2000), R(2450), R(3000)}

StopRequests ==
    {req \in LimitRequests({DEFAULT_TRADING_PAIR}, {"BUY"}) : req.price = LimitPrice}

SetStopLoss ==
    /\ \E side \in StopSides :
         StoreRisk(set_stop_loss(RiskManager, DEFAULT_TRADING_PAIR,
                                 StopEntryPrice, side))
    /\ UNCHANGED <<exvars, cfgvars, smvars, today, thvars>>

SetTakeProfit ==
    /\ \E side \in StopSides :
         StoreRisk(set_take_profit(RiskManager, DEFAULT_TRADING_PAIR,
                                   StopEntryPrice, side))
    /\ UNCHANGED <<exvars, cfgvars, smvars, today, thvars>>

StopTick == CallbackUpdatePrice(TRADING_PAIRS, StopTickPrices)
StopRisk == CallbackCheckRisk({NoSignal}, MaxOrders)
StopSubmit == PlaceOrder(StopRequests, MaxOrders, {TRUE})

NextStops == SetStopLoss \/ SetTakeProfit \/ StopTick \/ StopRisk \/ StopSubmit

SpecStops == Init /\ [][NextStops]_vars

(* Auto trading: the bot is started with or without auto trading and the   *)
(* price callback turns the strategy manager's signals into MARKET orders. *)
(* The caller has set the executor's slippage and commission rate to 0.    *)

InitSignal ==
    /\ InitCore
    /\ commission_rate = Zero
    /\ slippage = Zero

SignalStrengths == {strong_signal, Frac(4, 5)}

Signals ==
    {NoSignal} \cup {TradingSignal(t, s, None) : t \in Sides, s \in SignalStrengths}

SignalTick == CallbackUpdatePrice(TRADING_PAIRS, TickPrices)
SignalRisk == CallbackCheckRisk(Signals, MaxOrders)

NextSignal == StartPaperTrading \/ SignalTick \/ SignalRisk

SpecSignal == InitSignal /\ [][NextSignal]_vars

(* The registry: callers add, remove and select strategies by name.        *)

RegistryNames == DOMAIN default_strategies \cup {"momentum"}

StoreManager(sm) ==
    /\ strategies' = sm.strategies
    /\ active_strategy' = sm.active_strategy

AddStrategy ==
    /\ \E name \in RegistryNames, strategy \in StrategyObjects :
         StoreManager(add_strategy(StrategyManager, name, strategy))
    /\ UNCHANGED <<exvars, cfgvars, rmvars, thvars, signals_history, last_signal,
                   last_ma_cross>>

RemoveStrategy ==
    /\ \E name \in RegistryNames :
         StoreManager(remove_strategy(StrategyManager, name))
    /\ UNCHANGED <<exvars, cfgvars, rmvars, thvars, signals_history, last_signal,
                   last_ma_cross>>

SetActiveStrategy ==
    /\ \E name \in RegistryNames :
         StoreManager(set_active_strategy(StrategyManager, name).ex)
    /\ UNCHANGED <<exvars, cfgvars, rmvars, thvars, signals_history, last_signal,
                   last_ma_cross>>

NextRegistry == AddStrategy \/ RemoveStrategy \/ SetActiveStrategy

SpecRegistry == Init /\ [][NextRegistry]_vars

(* The dual moving-average generator fed with DataFrames of up to          *)
(* long_period + 1 candles.                                                *)

ClosePrices == {R(10000), R(10001), R(10100), R(20000)}

RECURSIVE Frames(_)
Frames(n) ==
    IF n = 0 THEN {<<>>}
    ELSE Frames(n - 1)
         \cup {Append(d, c) : d \in {f \in Frames(n - 1) : Len(f) = n - 1},
                              c \in ClosePrices}

DataFrames == Frames(long_period + 1)

\* The DataFrames the data collector hands over in a behaviour.
RecentPrices == {R(10000), R(10100), R(20000)}
RecentKlines == {f \in DataFrames : \A i \in 1..Len(f) : f[i] \in RecentPrices}

\* DualMA_signal of every DataFrame of the input set.
DualMASignals == [data \in DataFrames |-> DualMA_signal(data)]

StoreStrategy(s, st) ==
    /\ signals_history' = [signals_history EXCEPT ![s] = st.signals_history]
    /\ last_signal' = [last_signal EXCEPT ![s] = st.last_signal]

GenerateDualMA ==
    /\ \E data \in RecentKlines :
         LET r == DualMA_emit(TradingStrategy("DualMAStrategy"), DualMASignals[data])
         IN  /\ Len(r.ex.signals_history) <= MaxHistory
             /\ StoreStrategy("DualMAStrategy", r.ex)
             /\ last_ma_cross' = r.ex.last_ma_cross
    /\ UNCHANGED <<exvars, cfgvars, rmvars, thvars, strategies, active_strategy>>

NextDualMA == GenerateDualMA

SpecDualMA == Init /\ [][NextDualMA]_vars

(* The weighted composite: each call hands the combined strategy one       *)
(* DataFrame; what its three components compute from it is an input.       *)

CombinedFrames == {<<>>, <<R(10000)>>}

ComponentSignals ==
    {NoSignal, TradingSignal("BUY", One, R(10000)),
     TradingSignal("BUY", Frac(1, 2), R(10000)),
     TradingSignal("SELL", One, R(10000))}

ComponentOutputs == [1..Len(combined_strategies) -> ComponentSignals]

\* Combined_signal of every input of the input sets.
CombinedSignals ==
    [data \in CombinedFrames |->
       [outputs \in ComponentOutputs |-> Combined_signal(data, outputs)]]

\* The signals on record over all strategy objects.
TotalSignals(h) == Len(h["DualMAStrategy"]) + Len(h["RSIStrategy"])
                   + Len(h["MACDStrategy"]) + Len(h["CombinedStrategy"])

\* A component that returned the signal sig has recorded it.
ComponentAfter(s, sig) ==
    IF sig = NoSignal THEN TradingStrategy(s)
    ELSE IF s = "DualMAStrategy"
    THEN DualMA_emit(TradingStrategy(s),
                     [signal |-> sig,
                      cross |-> IF sig.signal_type = "BUY" THEN "golden"
                                ELSE "death"]).ex
    ELSE add_signal(TradingStrategy(s), sig)

GenerateCombined ==
    /\ \E data \in CombinedFrames, outputs \in ComponentOutputs :
         LET called == validate_data(data)
             after == [s \in StrategyObjects |->
                         IF s = "CombinedStrategy"
                         THEN Combined_emit(TradingStrategy(s),
                                            CombinedSignals[data][outputs]).ex
                         ELSE IF called
                         THEN LET i == CHOOSE k \in 1..Len(combined_strategies) :
                                         combined_strategies[k] = s
                              IN  ComponentAfter(s, outputs[i])
                         ELSE TradingStrategy(s)]
             h == [s \in StrategyObjects |-> after[s].signals_history]
         IN  /\ TotalSignals(h) <= MaxCombinedSignals
             /\ signals_history' = h
             /\ last_signal' = [s \in StrategyObjects |-> after[s].last_signal]
             /\ last_ma_cross' = after["DualMAStrategy"].last_ma_cross
    /\ UNCHANGED <<exvars, cfgvars, rmvars, thvars, strategies, active_strategy>>

NextCombined == GenerateCombined

SpecCombined == Init /\ [][NextCombined]_vars

(* The generators behind the manager: callers select a strategy by name    *)
(* and hand the manager DataFrames; every component computes its signal    *)
(* from the close prices.                                                  *)

\* RSI_signal and MACD_signal of every DataFrame of the input set.
RSISignals == [data \in DataFrames |-> RSI_signal(data)]
MACDSignals == [data \in DataFrames |-> MACD_signal(data)]

\* The DataFrames the data collector hands over in a behaviour: the close
\* moves between two levels.
GeneratorPrices == {R(10000), R(20000)}
GeneratorKlines == {f \in DataFrames : \A i \in 1..Len(f) : f[i] \in GeneratorPrices}

\* What each component of the combined strategy computes from a DataFrame.
ComputedSignals ==
    [data \in DataFrames |->
       [s \in {"DualMAStrategy", "RSIStrategy", "MACDStrategy"} |->
          CASE s = "DualMAStrategy" -> DualMASignals[data]
            [] s = "RSIStrategy" -> RSISignals[data]
            [] s = "MACDStrategy" -> MACDSignals[data]]]

\* The strategy objects as values.
StrategyStates == [s \in StrategyObjects |-> TradingStrategy(s)]

\* generate_signal(data) of the component s, which computes computed[s]
\* from the DataFrame.
Component_generate_signal(sts, s, computed) ==
    IF s = "DualMAStrategy" THEN DualMA_emit(sts[s], computed[s])
    ELSE Strategy_emit(sts[s], computed[s])

\* The strategy objects after the component s returned r.
Component_returned(sts, s, r) == Result([sts EXCEPT ![s] = r.ex], r.ret)

\* Lines 330-387 of CombinedStrategy.generate_signal; called[i] is the call
\* of strategies[i].generate_signal(data), which recorded what it returned.
Combined_returned(sts, data, called) ==
    LET r == Combined_generate_signal(sts["CombinedStrategy"], data,
                 [i \in 1..Len(combined_strategies) |-> called[i].ret])
    IN  Result([x \in StrategyObjects |->
                  IF x = "CombinedStrategy" THEN r.ex
                  ELSE LET i == CHOOSE k \in 1..Len(combined_strategies) :
                                  combined_strategies[k] = x
                       IN  called[i].ex],
               r.ret)

\* generate_signal(data) of the strategy object s: the strategy objects
\* after the call and the signal returned.
Strategy_generate_signal(sts, s, data, computed) ==
    IF s # "CombinedStrategy"
    THEN Component_returned(sts, s, Component_generate_signal(sts, s, computed))
    ELSE IF ~validate_data(data) THEN Result(sts, NoSignal)
    ELSE Combined_returned(sts, data,
             [i \in 1..Len(combined_strategies) |->
                Component_generate_signal(sts, combined_strategies[i], computed)])

\* StrategyManager.generate_signal(data) on the manager and its strategy
\* objects.
Manager_generate_signal(sm, sts, data, computed) ==
    IF sm.active_strategy # NoStrategy
    THEN Strategy_generate_signal(sts, sm.active_strategy, data, computed)
    ELSE Result(sts, NoSignal)

GenerateSignal ==
    /\ \E data \in GeneratorKlines :
         \E r \in {Manager_generate_signal(StrategyManager, StrategyStates, data,
                                           ComputedSignals[data])} :
           /\ signals_history' = [s \in StrategyObjects |-> r.ex[s].signals_history]
           /\ TotalSignals(signals_history') <= MaxGenerated
           /\ last_signal' = [s \in StrategyObjects |-> r.ex[s].last_signal]
           /\ last_ma_cross' = r.ex["DualMAStrategy"].last_ma_cross
    /\ UNCHANGED <<exvars, cfgvars, rmvars, thvars, strategies, active_strategy>>

NextGenerators == SetActiveStrategy \/ GenerateSignal

SpecGenerators == Init /\ [][NextGenerators]_vars

(* Two symbols: ticks, MARKET and LIMIT orders and signals on both pairs,  *)
(* with a price at which one unit is worth less than MIN_TRADE_AMOUNT.     *)
PairPrices == {R(1), R(2000), R(3000)}

PairRequests ==
    [symbol : TRADING_PAIRS, side : Sides, order_type : {"MARKET"},
     quantity : {R(1)}, price : {None}, stop_price : {None}]
    \cup LimitRequests(TRADING_PAIRS, {"BUY"})

PairTick == UpdatePrice(TRADING_PAIRS, PairPrices, {TRUE})
PairSubmit == PlaceOrder(PairRequests, MaxPairOrders, {TRUE})

\* A caller hands a SELL signal for one symbol to the executor.
ExecuteSignal ==
    /\ \E symbol \in TRADING_PAIRS :
         \E r \in {execute_signal(Self, TradingSignal("SELL", strong_signal, None),
                                  symbol, position_size_pct, TRUE)} :
           /\ Len(r.ex.orders) <= MaxPairOrders
           /\ Store(r.ex)
    /\ UNCHANGED <<cfgvars, smvars, rmvars, thvars>>

NextPairs == PairTick \/ PairSubmit \/ ExecuteSignal

SpecPairs == Init /\ [][NextPairs]_vars

----------------------------------------------------------------------------
(* The shutdown: TradingBot.stop runs to completion with no tick in        *)
(* progress.  Before it, ticks, MARKET and LIMIT orders and cancellations  *)
(* on one symbol, with a trade log whose writes can fail.                  *)

ShutdownTick ==
    /\ main.pc = "idle"
    /\ UpdatePrice({DEFAULT_TRADING_PAIR}, TickPrices, BOOLEAN)

ShutdownSubmit ==
    /\ main.pc = "idle"
    /\ PlaceOrder(LedgerRequests, MaxShutdownOrders, BOOLEAN)

ShutdownCancel ==
    /\ main.pc = "idle"
    /\ CancelOrder(MaxShutdownOrders)

\* TradingBot.stop, lines 281-302.
BotStop ==
    /\ main.pc = "idle"
    /\ \E open \in {get_open_orders(Self)} :
         main' = MainAfter(<<>>, {open[k] : k \in DOMAIN open})
    /\ Store(TradingBot_stop(Self))
    /\ auto_trading_enabled' = FALSE
    /\ UNCHANGED <<commission_rate, slippage, smvars, rmvars, ws, submit>>

NextShutdown == ShutdownTick \/ ShutdownSubmit \/ ShutdownCancel \/ BotStop

SpecShutdown == Init /\ [][NextShutdown]_vars

----------------------------------------------------------------------------
(* Properties.                                                             *)

OrderIds == 1..Len(orders)
HasTrade(ts, id) == \E k \in 1..Len(ts) : ts[k].order_id = id
NoRejected == \A i \in OrderIds : orders[i].status # "REJECTED"

\* C1: after every operation that succeeds (no execution was rejected),
\* availableBalance >= 0, fills of resting BUY orders included.
C1_BalanceNonNegative ==
    NoRejected => RGe(available_balance, Zero)

ExecutedByTick(i) ==
    /\ orders[i].status = "PENDING"
    /\ i <= Len(orders')
    /\ orders'[i].status \in {"FILLED", "REJECTED"}

PositionQuantity(ex, symbol) ==
    IF symbol \in DOMAIN ex.positions THEN ex.positions[symbol].quantity ELSE Zero

\* quantity, avgPrice, totalCost, realizedPnL of a position (none: all zero).
PositionCore(ps, symbol) ==
    LET p == IF symbol \in DOMAIN ps THEN ps[symbol] ELSE Position
    IN  <<p.quantity, p.avg_price, p.total_cost, p.realized_pnl>>

\* C3: a sell of more than the position's quantity fails and leaves the
\* position and the balance unchanged, at submission and when a resting
\* SELL order becomes eligible on a tick (it is not FILLED and no Trade is
\* recorded for it).
C3_OversellFails ==
    [][/\ \A req \in Requests, log_ok \in BOOLEAN :
            LET r == place_order(Self, req.symbol, req.side, req.order_type,
                                 req.quantity, req.price, req.stop_price, log_ok)
            IN  (/\ req.side = "SELL"
                 /\ RGt(req.quantity, PositionQuantity(Self, req.symbol)))
                => r.ret = 0 /\ r.ex = Self
       /\ \A i \in OrderIds :
            (/\ ExecutedByTick(i)
             /\ orders[i].side = "SELL"
             /\ LET at == scan_state(Self, i, current_prices'[orders[i].symbol])
                IN  RGt(orders[i].quantity, PositionQuantity(at, orders[i].symbol)))
            => /\ orders'[i].status # "FILLED"
               /\ ~HasTrade(trades', i)
               /\ (\A j \in OrderIds \ {i} : orders'[j] = orders[j])
                    => /\ available_balance' = available_balance
                       /\ PositionCore(positions', orders[i].symbol)
                            = PositionCore(positions, orders[i].symbol)]_vars

\* C4: a resting BUY order that becomes eligible to fill when the balance
\* is less than fill notional plus commission goes to REJECTED and no Trade
\* is recorded for it.
C4_UnaffordableFillRejected ==
    [][\A i \in OrderIds :
         (/\ ExecutedByTick(i)
          /\ orders[i].side = "BUY"
          /\ LET price == current_prices'[orders[i].symbol]
                 at == scan_state(Self, i, price)
             IN  RLt(at.available_balance,
                     fill_cost(Self, orders[i],
                               execution_price_of(orders[i], price))))
         => /\ orders'[i].status = "REJECTED"
            /\ ~HasTrade(trades', i)]_vars

\* C7, first half: a submission with quantity <= 0, an unobserved symbol, or
\* LIMIT without a price returns no id and changes nothing.
C7_InvalidRefused ==
    \A req \in Requests, log_ok \in BOOLEAN :
      LET r == place_order(Self, req.symbol, req.side, req.order_type,
                           req.quantity, req.price, req.stop_price, log_ok)
      IN  (\/ RLe(req.quantity, Zero)
           \/ req.symbol \notin DOMAIN current_prices
           \/ req.order_type = "LIMIT" /\ IsNone(req.price))
          => r.ret = 0 /\ r.ex = Self

\* C7, second half: a STOP_LOSS submission with a stop price, a valid
\* quantity and an observed symbol is not refused for having no limit
\* price: it is accepted when admission passes at its stop price and at the
\* latest price.
C7_StopLossNeedsNoPrice ==
    \A req \in StopLossRequests(TRADING_PAIRS) :
      LET r == place_order(Self, req.symbol, req.side, req.order_type,
                           req.quantity, req.price, req.stop_price, TRUE)
      IN  (/\ IsNone(req.price)
           /\ ~IsNone(req.stop_price)
           /\ RGt(req.quantity, Zero)
           /\ req.symbol \in DOMAIN current_prices
           /\ _risk_check(Self, req.symbol, req.side, req.quantity, req.stop_price)
           /\ _risk_check(Self, req.symbol, req.side, req.quantity,
                          current_prices[req.symbol]))
          => r.ret # 0

\* C7: both halves.
C7_Validation == C7_InvalidRefused /\ C7_StopLossNeedsNoPrice

\* C9: a MARKET order that is admitted is executed within place_order: the
\* order the call created is not PENDING and its fill price is the latest
\* observed price adjusted by slippage, with a Trade at that price.
C9_MarketFilledInCall ==
    [][(/\ Len(orders') = Len(orders) + 1
        /\ orders'[Len(orders')].order_type = "MARKET")
       => LET o == orders'[Len(orders')]
              latest == current_prices[o.symbol]
              p == IF o.side = "BUY" THEN RMul(latest, RAdd(One, slippage))
                   ELSE RMul(latest, RSub(One, slippage))
          IN  /\ o.status \in {"FILLED", "REJECTED"}
              /\ o.avg_fill_price = p
              /\ o.filled_quantity = o.quantity
              /\ Len(trades') = Len(trades) + 1
              /\ trades'[Len(trades')].order_id = o.id
              /\ trades'[Len(trades')].price = p
              /\ trades'[Len(trades')].quantity = o.quantity]_vars

C9_Witness ==
    \E i \in OrderIds :
      /\ orders[i].order_type = "MARKET"
      /\ orders[i].status = "FILLED"
      /\ orders[i].side = "SELL"
      /\ orders[i].avg_fill_price = RMul(R(3000), RSub(One, slippage))

\* C10: cancel_order returns True and sets CANCELLED exactly when the order
\* exists and is PENDING; otherwise it returns False and changes nothing;
\* a second cancel of the same order returns False.
C10_CancelOnlyPending ==
    \A order_id \in 1..(MaxOrders + 1) :
      LET r == cancel_order(Self, order_id)
          pending == order_id \in OrderIds /\ orders[order_id].status = "PENDING"
      IN  /\ r.ret = pending
          /\ pending => r.ex = [Self EXCEPT !.orders[order_id].status = "CANCELLED"]
          /\ ~pending => r.ex = Self
          /\ cancel_order(r.ex, order_id) = Result(r.ex, FALSE)

C10_Witness ==
    \E i, j \in OrderIds :
      /\ orders[i].status = "CANCELLED"
      /\ orders[j].status = "FILLED"

\* C5: two concurrent BUY submissions for different symbols never both pass
\* the funds check and together drive availableBalance below 0.
C5_AtomicFundsCheck ==
    (\A t \in Submitters : submit[t].admitted) => RGe(available_balance, Zero)

\* C6: an order for which cancel_order returned True is never afterwards
\* FILLED, and no order gets a Trade after being CANCELLED.
C6_CancelledStaysCancelled ==
    [][\A i \in OrderIds :
         /\ i \in main.returned => orders'[i].status # "FILLED"
         /\ (orders[i].status = "CANCELLED" /\ ~HasTrade(trades, i))
              => ~HasTrade(trades', i)]_vars

\* C8: whenever the Risk Gate's can_trade for the symbol and side rejects
\* (daily count or daily loss at its maximum), place_order creates no order.
C8_GateBeforeOrder ==
    \A req \in GateRequests :
      ~can_trade(RiskManager, today, req.symbol, req.side, None, None)
      => place_order(Self, req.symbol, req.side, req.order_type, req.quantity,
                     req.price, req.stop_price, TRUE).ret = 0

----------------------------------------------------------------------------
(* Fills on a tick.                                                        *)

\* The fill price of an execution of order o at price e.
Slipped(o, e) ==
    IF o.side = "BUY" THEN RMul(e, RAdd(One, slippage))
    ELSE RMul(e, RSub(One, slippage))

TradesOf(ts, id) == {k \in 1..Len(ts) : ts[k].order_id = id}

\* The tick (symbol of order i, price), with the trade-log writes of the
\* orders in fails raising, executes the PENDING order i in full at
\* execution price e: one Trade at the slipped price, the order's fill
\* fields set, status FILLED (REJECTED when its own log write raised).
TickFills(i, price, fails, e) ==
    LET ex == update_price(Self, orders[i].symbol, price, fails)
        o == ex.orders[i]
        p == Slipped(orders[i], e)
    IN  /\ o.status = IF i \in fails THEN "REJECTED" ELSE "FILLED"
        /\ o.filled_quantity = orders[i].quantity
        /\ o.remaining_quantity = Zero
        /\ o.avg_fill_price = p
        /\ \E k \in 1..Len(ex.trades) :
              /\ TradesOf(ex.trades, i) = {k}
              /\ ex.trades[k].price = p
              /\ ex.trades[k].quantity = orders[i].quantity

\* The same tick leaves order i as it is and records no Trade for it.
TickLeaves(i, price, fails) ==
    LET ex == update_price(Self, orders[i].symbol, price, fails)
    IN  /\ ex.orders[i] = orders[i]
        /\ TradesOf(ex.trades, i) = {}

PendingOfType(i, type) ==
    orders[i].status = "PENDING" /\ orders[i].order_type = type

\* C11: on a tick every PENDING LIMIT BUY with tick price <= limit and
\* every PENDING LIMIT SELL with tick price >= limit is filled with the
\* limit price as execution price; a LIMIT order whose condition the tick
\* does not satisfy is not filled.
C11_LimitFillsOnTick ==
    \A i \in OrderIds, price \in TickPrices, fails \in SUBSET OrderIds :
      PendingOfType(i, "LIMIT") =>
        IF \/ orders[i].side = "BUY" /\ RLe(price, orders[i].price)
           \/ orders[i].side = "SELL" /\ RGe(price, orders[i].price)
        THEN TickFills(i, price, fails, orders[i].price)
        ELSE TickLeaves(i, price, fails)

C11_Witness ==
    \E i \in OrderIds :
      /\ orders[i].order_type = "LIMIT"
      /\ orders[i].side = "BUY"
      /\ orders[i].status = "FILLED"
      /\ orders[i].avg_fill_price = RMul(LimitPrice, RAdd(One, slippage))
      /\ current_prices[orders[i].symbol] = R(2000)

\* C12: a PENDING STOP_LOSS order with a stop price fills in full at the
\* tick price on a tick that has crossed its stop (SELL: price <= stop,
\* BUY: price >= stop) and is left alone by every tick that has not; so it
\* fills on the first crossing tick and on none before.
C12_StopLossFillsOnCross ==
    \A i \in OrderIds, price \in TickPrices, fails \in SUBSET OrderIds :
      (PendingOfType(i, "STOP_LOSS") /\ Truthy(orders[i].stop_price)) =>
        IF \/ orders[i].side = "SELL" /\ RLe(price, orders[i].stop_price)
           \/ orders[i].side = "BUY" /\ RGe(price, orders[i].stop_price)
        THEN TickFills(i, price, fails, price)
        ELSE TickLeaves(i, price, fails)

C12_Witness ==
    \E i \in OrderIds :
      /\ orders[i].order_type = "STOP_LOSS"
      /\ orders[i].side = "SELL"
      /\ orders[i].status = "FILLED"
      /\ orders[i].filled_quantity = orders[i].quantity
      /\ orders[i].avg_fill_price = RMul(R(2000), RSub(One, slippage))

\* C13: a PENDING TAKE_PROFIT order fills on a tick that has reached its
\* target (SELL: price >= target, BUY: price <= target) with the target as
\* execution price and is left alone by every tick that has not; so it
\* fills on the first such tick and on none before.
C13_TakeProfitFillsAtTarget ==
    \A i \in OrderIds, price \in TickPrices, fails \in SUBSET OrderIds :
      PendingOfType(i, "TAKE_PROFIT") =>
        IF \/ orders[i].side = "SELL" /\ RGe(price, orders[i].price)
           \/ orders[i].side = "BUY" /\ RLe(price, orders[i].price)
        THEN TickFills(i, price, fails, orders[i].price)
        ELSE TickLeaves(i, price, fails)

C13_Witness ==
    \E i \in OrderIds :
      /\ orders[i].order_type = "TAKE_PROFIT"
      /\ orders[i].side = "SELL"
      /\ orders[i].status = "FILLED"
      /\ orders[i].avg_fill_price = RMul(LimitPrice, RSub(One, slippage))
      /\ current_prices[orders[i].symbol] = R(3000)

\* The execution price of a fill of order o in this step: the latest price
\* for MARKET, the order's price for LIMIT and TAKE_PROFIT, the tick price
\* for STOP_LOSS.
ExecutionPrice(o) ==
    IF o.order_type \in {"LIMIT", "TAKE_PROFIT"} THEN o.price
    ELSE current_prices'[o.symbol]

\* The Trade trades'[k] appended in this step is a fill of its order in
\* full: slipped price, commission = quantity x fill price x rate, the only
\* Trade of the order, and the order carries the fill.
FullFill(k) ==
    LET t == trades'[k]
        o == orders'[t.order_id]
        p == Slipped(o, ExecutionPrice(o))
    IN  /\ t.quantity = o.quantity
        /\ t.price = p
        /\ t.commission = RMul(RMul(o.quantity, p), commission_rate)
        /\ TradesOf(trades', o.id) = {k}
        /\ o.filled_quantity = o.quantity
        /\ o.avg_fill_price = p
        /\ o.commission = t.commission

\* C14: every fill is for the order's full quantity at the slipped
\* execution price, with commission = quantity x fill price x commission
\* rate, exactly one Trade with those values, and the order ends FILLED
\* with filledQuantity, avgFillPrice and commission set.
C14_FillSemantics ==
    [][\A k \in (Len(trades) + 1)..Len(trades') :
         /\ FullFill(k)
         /\ orders'[trades'[k].order_id].status = "FILLED"]_vars

----------------------------------------------------------------------------
(* The buy and sell scenario and the round trip.                           *)

PositionOf(ex, symbol) ==
    IF symbol \in DOMAIN ex.positions THEN ex.positions[symbol] ELSE Position

MarketOrder(ex, side, quantity) ==
    place_order(ex, DEFAULT_TRADING_PAIR, side, "MARKET", quantity, None, None, TRUE)

\* C15: with slippage 0, commission rate 0.1%, balance 10000 and price
\* 50000, a BUY of 0.1 is admitted and leaves availableBalance 4995 and the
\* position at quantity 0.1, avgPrice 50000; a following tick to 60000
\* sets its unrealizedPnL to 1000.
C15_BuyLeg ==
    (/\ slippage = Zero
     /\ commission_rate = Frac(1, 1000)
     /\ orders = <<>>
     /\ available_balance = R(10000)
     /\ DEFAULT_TRADING_PAIR \in DOMAIN current_prices
     /\ current_prices[DEFAULT_TRADING_PAIR] = R(50000))
    => LET b == MarketOrder(Self, "BUY", Frac(1, 10))
           pos == PositionOf(b.ex, DEFAULT_TRADING_PAIR)
           t == update_price(b.ex, DEFAULT_TRADING_PAIR, R(60000), {})
       IN  /\ b.ret # 0
           /\ b.ex.available_balance = R(4995)
           /\ pos.quantity = Frac(1, 10)
           /\ pos.avg_price = R(50000)
           /\ PositionOf(t, DEFAULT_TRADING_PAIR).unrealized_pnl = R(1000)

\* The ledger after the buy leg and the tick to 60000.
AfterBuyLeg ==
    /\ slippage = Zero
    /\ commission_rate = Frac(1, 1000)
    /\ Len(orders) = 1
    /\ orders[1].side = "BUY"
    /\ orders[1].status = "FILLED"
    /\ available_balance = R(4995)
    /\ DEFAULT_TRADING_PAIR \in DOMAIN positions
    /\ positions[DEFAULT_TRADING_PAIR].quantity = Frac(1, 10)
    /\ positions[DEFAULT_TRADING_PAIR].avg_price = R(50000)
    /\ current_prices[DEFAULT_TRADING_PAIR] = R(60000)

C15_Witness ==
    AfterBuyLeg /\ positions[DEFAULT_TRADING_PAIR].unrealized_pnl = R(1000)

\* C16 as the code has it: from availableBalance 4995 and position 0.1 at
\* avgPrice 50000, a SELL of all 0.1 at 60000 (commission rate 0.1%,
\* slippage 0) yields realizedPnL = 6000 - 0.1 x 50000 = 1000 for the
\* position, the commissions of both legs (5 + 6) in the position's
\* total_commission, and availableBalance = 10989.
C16_SellLeg ==
    AfterBuyLeg
    => LET r == MarketOrder(Self, "SELL", Frac(1, 10))
           pos == PositionOf(r.ex, DEFAULT_TRADING_PAIR)
       IN  /\ r.ret # 0
           /\ pos.realized_pnl = R(1000)
           /\ pos.total_commission = R(11)
           /\ pos.quantity = Zero
           /\ r.ex.available_balance = R(10989)

\* C16 as stated: the same SELL yields realizedPnL = 994 and
\* availableBalance = 10989.
C16_SellLegNet ==
    AfterBuyLeg
    => LET r == MarketOrder(Self, "SELL", Frac(1, 10))
       IN  /\ PositionOf(r.ex, DEFAULT_TRADING_PAIR).realized_pnl = R(994)
           /\ r.ex.available_balance = R(10989)

C16_Witness ==
    /\ commission_rate = Frac(1, 1000)
    /\ Len(orders) = 2
    /\ orders[2].side = "SELL"
    /\ orders[2].status = "FILLED"
    /\ orders[2].avg_fill_price = R(60000)
    /\ positions[DEFAULT_TRADING_PAIR].realized_pnl = R(1000)
    /\ available_balance = R(10989)

\* C18: with slippage 0 and commission rate 0, from an empty position,
\* every admitted BUY of q at the latest price p followed by a SELL of q
\* at p restores availableBalance, leaves the position at quantity 0 and
\* avgPrice 0, and realizes 0 (realizedPnL is what it was, 0 on a new
\* position).
C18_RoundTrip ==
    (/\ slippage = Zero
     /\ commission_rate = Zero
     /\ PositionOf(Self, DEFAULT_TRADING_PAIR).quantity = Zero)
    => \A q \in ScenarioQuantities :
         LET b == MarketOrder(Self, "BUY", q)
             s == MarketOrder(b.ex, "SELL", q)
             pos == PositionOf(s.ex, DEFAULT_TRADING_PAIR)
         IN  b.ret # 0
             => /\ s.ret # 0
                /\ s.ex.available_balance = available_balance
                /\ pos.quantity = Zero
                /\ pos.avg_price = Zero
                /\ pos.realized_pnl
                     = PositionOf(Self, DEFAULT_TRADING_PAIR).realized_pnl

C18_Witness ==
    /\ commission_rate = Zero
    /\ Len(trades) = 2
    /\ trades[1].side = "BUY"
    /\ trades[2].side = "SELL"
    /\ trades[1].price = trades[2].price
    /\ trades[1].quantity = trades[2].quantity
    /\ available_balance = R(10000)
    /\ positions[DEFAULT_TRADING_PAIR].quantity = Zero
    /\ positions[DEFAULT_TRADING_PAIR].avg_price = Zero
    /\ positions[DEFAULT_TRADING_PAIR].realized_pnl = Zero

----------------------------------------------------------------------------
(* The position ledger.                                                    *)

\* The position of symbol after the first n trades of ts.
RECURSIVE PositionAfter(_, _, _)
PositionAfter(ts, n, symbol) ==
    IF n = 0 THEN Position
    ELSE IF ts[n].symbol = symbol
         THEN Position_update_position(PositionAfter(ts, n - 1, symbol), ts[n])
         ELSE PositionAfter(ts, n - 1, symbol)

\* Sum over the trades n+1..Len(ts) of symbol: notional (quantity x fill
\* price) and quantity.
RECURSIVE SumNotional(_, _, _)
SumNotional(ts, n, symbol) ==
    IF n >= Len(ts) THEN Zero
    ELSE LET rest == SumNotional(ts, n + 1, symbol)
             t == ts[n + 1]
         IN  IF t.symbol = symbol THEN RAdd(RMul(t.quantity, t.price), rest)
             ELSE rest

RECURSIVE SumQuantity(_, _, _)
SumQuantity(ts, n, symbol) ==
    IF n >= Len(ts) THEN Zero
    ELSE LET rest == SumQuantity(ts, n + 1, symbol)
             t == ts[n + 1]
         IN  IF t.symbol = symbol THEN RAdd(t.quantity, rest) ELSE rest

\* After trade n the position of symbol was empty and every later trade of
\* the symbol is a BUY, at least one.
OnlyBuysSince(n, symbol) ==
    /\ PositionAfter(trades, n, symbol).quantity = Zero
    /\ \A k \in (n + 1)..Len(trades) :
         trades[k].symbol = symbol => trades[k].side = "BUY"
    /\ \E k \in (n + 1)..Len(trades) : trades[k].symbol = symbol

\* C17: after a sequence of BUY fills on one symbol from an empty position
\* with no sell in between, avgPrice = sum of fill notionals / sum of fill
\* quantities and totalCost = sum of fill notionals; the same average holds
\* for the PortfolioManager fed with those fills.
C17_AvgPriceWeighted ==
    \A symbol \in TRADING_PAIRS, n \in 0..Len(trades) :
      OnlyBuysSince(n, symbol)
      => LET notional == SumNotional(trades, n, symbol)
             quantity == SumQuantity(trades, n, symbol)
             pm == PortfolioManager_fed(trades, Len(trades))
         IN  /\ positions[symbol].total_cost = notional
             /\ positions[symbol].quantity = quantity
             /\ positions[symbol].avg_price = RDiv(notional, quantity)
             /\ PortfolioManager_get_position(PortfolioManager_fed(trades, n),
                                              symbol).quantity = Zero
                  => pm.positions[symbol].avg_price = RDiv(notional, quantity)

C17_Witness ==
    /\ Len(trades) = 2
    /\ trades[1].side = "BUY"
    /\ trades[2].side = "BUY"
    /\ trades[1].price # trades[2].price
    /\ positions[DEFAULT_TRADING_PAIR].avg_price
         = RDiv(RAdd(RMul(trades[1].quantity, trades[1].price),
                     RMul(trades[2].quantity, trades[2].price)),
                RAdd(trades[1].quantity, trades[2].quantity))

\* C19: in every reachable ledger state and for every symbol, position
\* quantity >= 0 and avgPrice = 0 exactly when quantity = 0; the same for
\* the PortfolioManager fed with the fills.
C19_QuantityAndAvgPrice ==
    /\ \A symbol \in DOMAIN positions :
         /\ RGe(positions[symbol].quantity, Zero)
         /\ positions[symbol].avg_price = Zero <=> positions[symbol].quantity = Zero
    /\ LET pm == PortfolioManager_fed(trades, Len(trades))
       IN  \A symbol \in DOMAIN pm.positions :
             /\ RGe(pm.positions[symbol].quantity, Zero)
             /\ pm.positions[symbol].avg_price = Zero
                  <=> pm.positions[symbol].quantity = Zero

\* A partial sell (quantity and avgPrice stay positive), then a sell to zero.
C19_Witness ==
    /\ Len(trades) = 3
    /\ trades[1].side = "BUY"
    /\ trades[2].side = "SELL"
    /\ RLt(trades[2].quantity, trades[1].quantity)
    /\ RGt(PositionAfter(trades, 2, DEFAULT_TRADING_PAIR).avg_price, Zero)
    /\ trades[3].side = "SELL"
    /\ positions[DEFAULT_TRADING_PAIR].quantity = Zero
    /\ positions[DEFAULT_TRADING_PAIR].avg_price = Zero

----------------------------------------------------------------------------
(* The portfolio snapshot.                                                 *)

SellTrades == {k \in 1..Len(trades) : trades[k].side = "SELL"}

\* The SELL trades that realized a profit by their own result: notional
\* above quantity x the position's average price before the trade.
WinningSellTrades ==
    {k \in SellTrades :
       LET t == trades[k]
           before == PositionAfter(trades, k - 1, t.symbol)
       IN  RGt(RMul(t.quantity, t.price), RMul(t.quantity, before.avg_price))}

\* C20: the snapshot's winRate (as a percentage) is the number of SELL
\* trades that realized a profit over the number of SELL trades, 0 when
\* there is no SELL trade; BUY trades are not in the denominator and a SELL
\* wins by its own result.
C20_WinRate ==
    get_portfolio_summary(Self).win_rate
      = IF SellTrades = {} THEN Zero
        ELSE RMul(RDiv(R(Cardinality(WinningSellTrades)),
                       R(Cardinality(SellTrades))), R(100))

----------------------------------------------------------------------------
(* The Risk Gate.                                                          *)

\* The order sizes and prices a caller proposes to the Risk Gate.
GateQuantities == {R(1), R(2)}

\* C21: the Risk Gate's admission check rejects every BUY whose notional
\* (quantity x price) exceeds max_position_size x the current total equity
\* (available balance plus the positions at their last prices).
C21_OversizedBuyRejected ==
    \A quantity \in GateQuantities, current_price \in TickPrices :
      RGt(RMul(quantity, current_price),
          RMul(max_position_size, get_total_value(Self)))
      => ~can_trade(RiskManager, today, DEFAULT_TRADING_PAIR, "BUY",
                    quantity, current_price)

\* C22: daily trade counts are bucketed by date.  When the date moves on,
\* the count that can_trade checks is 0 and the admission passes whatever
\* earlier dates hold; can_trade's verdict is decided by today's bucket
\* alone; and no step increments or creates a bucket of another date.
C22_DailyBuckets ==
    [][/\ today' # today
          => /\ Get(daily_trades', today') = 0
             /\ can_trade(RiskManager', today', DEFAULT_TRADING_PAIR, "BUY",
                          None, None)
       /\ can_trade(RiskManager, today, DEFAULT_TRADING_PAIR, "BUY", None, None)
          <=> Get(daily_trades, today) < MAX_DAILY_TRADES
       /\ \A d \in DOMAIN daily_trades' :
            d # today => /\ d \in DOMAIN daily_trades
                         /\ daily_trades'[d] = daily_trades[d]]_vars

\* The day before is full and a trade has been recorded on the new day.
C22_Witness ==
    /\ today = 1
    /\ Get(daily_trades, 0) = MAX_DAILY_TRADES
    /\ Get(daily_trades, 1) = 1

\* A step of the price callback that runs check_position_risk.
RiskStep == ws.pc = "risk" /\ ws'.pc = "idle"

\* C24: a long stop is armed at entry_price x (1 - stop_loss_pct).  An armed
\* stop is triggered, and thereby disarmed, by exactly the risk checks of
\* ticks for its symbol with price <= stop price: every other step leaves
\* it armed, and a risk check arms nothing, so once disarmed no later tick
\* triggers until set_stop_loss is called again.
C24_StopLossTriggersOnce ==
    [][/\ set_stop_loss(RiskManager, DEFAULT_TRADING_PAIR, StopEntryPrice,
                        "LONG").stop_loss_orders[DEFAULT_TRADING_PAIR]
          = RSub(StopEntryPrice, RMul(StopEntryPrice, stop_loss_pct))
       /\ \A s \in DOMAIN stop_loss_orders :
            IF RiskStep /\ ws.symbol = s /\ RLe(ws.price, stop_loss_orders[s])
            THEN s \notin DOMAIN stop_loss_orders'
            ELSE /\ s \in DOMAIN stop_loss_orders'
                 /\ RiskStep => stop_loss_orders'[s] = stop_loss_orders[s]
       /\ RiskStep => DOMAIN stop_loss_orders' \subseteq DOMAIN stop_loss_orders]_vars

\* A tick at the long stop price is about to trigger the stop.
C24_Witness ==
    /\ ws.pc = "risk"
    /\ ws.symbol \in DOMAIN stop_loss_orders
    /\ stop_loss_orders[ws.symbol] = RMul(StopEntryPrice, Frac(98, 100))
    /\ ws.price = stop_loss_orders[ws.symbol]
    /\ ws.symbol \notin DOMAIN check_position_risk(RiskManager, ws.symbol,
                                                   ws.price).stop_loss_orders

\* The orders created by a step: SELL orders for the symbol among them.
SellSubmitted(symbol) ==
    \E i \in (Len(orders) + 1)..Len(orders') :
      orders'[i].symbol = symbol /\ orders'[i].side = "SELL"

\* C25: when a risk check triggers an armed stop-loss or take-profit for a
\* symbol whose position is held, a SELL for that symbol is submitted to
\* the executor by that step.
C25_TriggerLiquidates ==
    [][(/\ RiskStep
        /\ \/ StopLossHit(RiskManager, ws.symbol, ws.price)
           \/ TakeProfitHit(RiskManager, ws.symbol, ws.price)
        /\ RGt(PositionQuantity(Self, ws.symbol), Zero))
       => SellSubmitted(ws.symbol)]_vars

\* The levels set_stop_loss and set_take_profit store for SHORT.
ShortStopPrice == RMul(StopEntryPrice, RAdd(One, stop_loss_pct))
ShortTargetPrice == RMul(StopEntryPrice, RSub(One, take_profit_pct))

\* C26: for SHORT the stop is armed at entry_price x (1 + pct) and a risk
\* check triggers it exactly when the tick's price is at or above it; the
\* take-profit is armed at entry_price x (1 - pct) and triggers exactly when
\* the price is at or below it.
C26_ShortDirections ==
    [][/\ set_stop_loss(RiskManager, DEFAULT_TRADING_PAIR, StopEntryPrice,
                        "SHORT").stop_loss_orders[DEFAULT_TRADING_PAIR]
          = ShortStopPrice
       /\ set_take_profit(RiskManager, DEFAULT_TRADING_PAIR, StopEntryPrice,
                          "SHORT").take_profit_orders[DEFAULT_TRADING_PAIR]
          = ShortTargetPrice
       /\ \A s \in DOMAIN stop_loss_orders :
            (RiskStep /\ ws.symbol = s /\ stop_loss_orders[s] = ShortStopPrice)
            => (s \notin DOMAIN stop_loss_orders'
                <=> RGe(ws.price, stop_loss_orders[s]))
       /\ \A s \in DOMAIN take_profit_orders :
            (RiskStep /\ ws.symbol = s /\ take_profit_orders[s] = ShortTargetPrice)
            => (s \notin DOMAIN take_profit_orders'
                <=> RLe(ws.price, take_profit_orders[s]))]_vars

\* C27: a tick is processed risk check first, then pending-order scan and
\* fills: when the price callback arrives at its check_position_risk, the
\* tick has not yet been given to the executor, so the step leading there
\* has filled no order.
C27_RiskCheckBeforeScan ==
    [][(ws.pc = "idle" /\ ws'.pc = "risk")
       => /\ Len(trades') = Len(trades)
          /\ \A i \in OrderIds : orders'[i].status = orders[i].status]_vars

\* C23: the Risk Gate's trade count for today moves only with confirmed
\* trades: every step adds to it exactly the number of trades the step has
\* filled, so an admission that is rejected, filling nothing, adds nothing.
C23_CountTracksFills ==
    [][Get(daily_trades', today') = Get(daily_trades, today)
                                    + (Len(trades') - Len(trades))]_vars

----------------------------------------------------------------------------
(* Strategies.                                                             *)

\* What the strategy objects may return for one DataFrame.
StrategyOutputs ==
    [StrategyObjects -> {NoSignal, TradingSignal("BUY", One, R(2000))}]

\* C28: set_active_strategy with a name that is not registered returns
\* False and leaves the manager as it was, the active strategy included;
\* with a registered name it returns True and generate_signal then returns
\* what the strategy registered under that name returns.
C28_SetActiveStrategy ==
    \A name \in RegistryNames :
      LET r == set_active_strategy(StrategyManager, name)
      IN  IF name \in DOMAIN strategies
          THEN /\ r.ret
               /\ r.ex.strategies = strategies
               /\ \A outputs \in StrategyOutputs :
                    StrategyManager_generate_signal(r.ex, outputs)
                    = outputs[strategies[name]]
          ELSE /\ ~r.ret
               /\ r.ex = StrategyManager

\* The RSI strategy has been selected and the name dual_ma is no longer
\* registered.
C28_Witness ==
    /\ "rsi" \in DOMAIN strategies
    /\ active_strategy = strategies["rsi"]
    /\ active_strategy = "RSIStrategy"
    /\ "dual_ma" \notin DOMAIN strategies

\* What the components may return: either side at three strengths.
FiredSignals ==
    {TradingSignal(t, s, R(10000)) : t \in Sides, s \in {Frac(1, 2), Frac(3, 5), One}}

CompositeInputs == [1..Len(combined_strategies) -> {NoSignal} \cup FiredSignals]

RECURSIVE RSum(_, _)
RSum(f, S) ==
    IF S = {} THEN Zero
    ELSE LET i == CHOOSE k \in S : TRUE IN RAdd(f[i], RSum(f, S \ {i}))

\* The aggregates of the weighted composite: each fired component's
\* strength times its weight, summed per side and divided by the sum of
\* the weights of the components that fired.
Aggregate(outputs, side) ==
    LET fired == {i \in DOMAIN outputs : outputs[i] # NoSignal}
        of_side == {i \in fired : outputs[i].signal_type = side}
    IN  RDiv(RSum([i \in of_side |-> RMul(outputs[i].strength, combined_weights[i])],
                  of_side),
             RSum(combined_weights, fired))

\* The signal the composite is to emit for component outputs, at price p.
Composite(outputs, p) ==
    IF \A i \in DOMAIN outputs : outputs[i] = NoSignal THEN NoSignal
    ELSE LET buy == Aggregate(outputs, "BUY")
             sell == Aggregate(outputs, "SELL")
         IN  IF RGt(buy, Frac(1, 2)) /\ RGt(buy, sell)
             THEN TradingSignal("BUY", buy, p)
             ELSE IF RGt(sell, Frac(1, 2)) /\ RGt(sell, buy)
             THEN TradingSignal("SELL", sell, p)
             ELSE NoSignal

CompositeOf == [outputs \in CompositeInputs |-> Composite(outputs, R(10000))]

CombinedOf ==
    [outputs \in CompositeInputs |-> Combined_signal(<<R(10000)>>, outputs)]

Combined == TradingStrategy("CombinedStrategy")

\* For all component outputs CombinedStrategy computes the composite's signal.
AggregatesAgree ==
    \A outputs \in CompositeInputs : CombinedOf[outputs] = CompositeOf[outputs]

\* The signals the composite is to emit over all component outputs.
FinalSignals == {CompositeOf[outputs] : outputs \in CompositeInputs}

\* C29: the weighted composite returns BUY with the BUY aggregate as its
\* strength when that aggregate is > 0.5 and > the SELL aggregate, SELL in
\* the mirrored case and no signal otherwise (ties and no component fired
\* included); a signal returned is appended to the composite's history and
\* a call that returns none leaves the composite as it was.
C29_WeightedComposite ==
    /\ AggregatesAgree
    /\ \A final_signal \in FinalSignals :
         LET r == Combined_emit(Combined, final_signal)
         IN  /\ r.ret = final_signal
             /\ IF final_signal = NoSignal THEN r.ex = Combined
                ELSE r.ex.signals_history
                     = Append(Combined.signals_history, final_signal)

\* The composite has emitted a BUY of strength 13/16 from two BUY
\* components (weights 0.5 and 0.3) while the third did not fire.
C29_Witness ==
    /\ Len(signals_history["CombinedStrategy"]) >= 1
    /\ signals_history["CombinedStrategy"][1].signal_type = "BUY"
    /\ signals_history["CombinedStrategy"][1].strength = Frac(13, 16)
    /\ Len(signals_history["MACDStrategy"]) = 0

\* The simple moving average of the last `window` closes ending at i.
SMA(data, window, i) == RDiv(SumSeq(data, i - window + 1, i), R(window))

DualMA == TradingStrategy("DualMAStrategy")
Threshold == RDiv(signal_threshold, R(100))

\* The averages of a DataFrame of at least long_period + 1 candles, their
\* relative gap, and whether the short average has crossed above the long.
Averages(data) ==
    LET n == Len(data)
        currShort == SMA(data, short_period, n)
        currLong == SMA(data, long_period, n)
        prevShort == SMA(data, short_period, n - 1)
        prevLong == SMA(data, long_period, n - 1)
        diff == IF RGe(currShort, currLong)
                THEN RSub(currShort, currLong)
                ELSE RSub(currLong, currShort)
    IN  [gap |-> RDiv(diff, currLong),
         crossedUp |-> RLe(prevShort, prevLong) /\ RGt(currShort, currLong)]

AveragesOf ==
    [data \in {f \in DataFrames : Len(f) >= long_period + 1} |-> Averages(data)]

\* C30: with at least long_period + 1 candles, when the short average was
\* at or below the long one and is now above it by a relative gap greater
\* than the threshold, one call returns a BUY whose strength is gap x 10
\* capped at 1, hence in (0, 1], and appends that signal, and nothing else,
\* to the strategy's history; when the gap is at or below the threshold,
\* or there are too few candles for both pairs of averages, the call
\* returns no signal and leaves the strategy as it was.
C30_GoldenCross ==
    \A data \in DataFrames :
      LET r == DualMA_emit(DualMA, DualMASignals[data])
      IN  IF Len(data) < long_period + 1
          THEN r.ret = NoSignal /\ r.ex = DualMA
          ELSE
            LET gap == AveragesOf[data].gap
            IN  /\ (AveragesOf[data].crossedUp /\ RGt(gap, Threshold))
                   => /\ r.ret.signal_type = "BUY"
                      /\ r.ret.strength = IF RGt(RMul(gap, R(10)), One) THEN One
                                          ELSE RMul(gap, R(10))
                      /\ RGt(r.ret.strength, Zero) /\ RLe(r.ret.strength, One)
                      /\ r.ex.signals_history = Append(DualMA.signals_history, r.ret)
                /\ RLe(gap, Threshold)
                   => r.ret = NoSignal /\ r.ex = DualMA

\* The history holds a BUY of strength below 1 followed by one capped at 1.
C30_Witness ==
    /\ Len(signals_history["DualMAStrategy"]) = 2
    /\ signals_history["DualMAStrategy"][1].signal_type = "BUY"
    /\ RLt(signals_history["DualMAStrategy"][1].strength, One)
    /\ signals_history["DualMAStrategy"][2].signal_type = "BUY"
    /\ signals_history["DualMAStrategy"][2].strength = One
    /\ last_ma_cross = "golden"

\* A signal with a direction and a strength in (0, 1].
ValidSignal(sig) ==
    /\ sig.signal_type \in Sides
    /\ ~IsNone(sig.strength)
    /\ RGt(sig.strength, Zero)
    /\ RLe(sig.strength, One)

\* What the composite makes of the components' signals for a DataFrame.
CompositeSignals ==
    [data \in RecentKlines |->
       Combined_signal(data, [i \in 1..Len(combined_strategies) |->
                                IF combined_strategies[i] = "DualMAStrategy"
                                THEN ComputedSignals[data][combined_strategies[i]].signal
                                ELSE ComputedSignals[data][combined_strategies[i]]])]

\* Every generator, on every DataFrame of the input set, returns None or a
\* signal in range.
GeneratorsInRange ==
    /\ \A data \in DataFrames :
         \A sig \in {DualMASignals[data].signal, RSISignals[data], MACDSignals[data]} :
           sig = NoSignal \/ ValidSignal(sig)
    /\ \A data \in RecentKlines :
         CompositeSignals[data] = NoSignal \/ ValidSignal(CompositeSignals[data])

\* C31: every signal returned by a generator (dual-MA, RSI, MACD,
\* composite) or by StrategyManager.generate_signal has direction BUY or
\* SELL and a strength s with 0 < s <= 1: what the generators compute, what
\* the manager returns next, and every signal on record.
C31_SignalsInRange ==
    /\ GeneratorsInRange
    /\ \A data \in GeneratorKlines :
         LET ret == Manager_generate_signal(StrategyManager, StrategyStates, data,
                                            ComputedSignals[data]).ret
         IN  ret = NoSignal \/ ValidSignal(ret)
    /\ \A s \in StrategyObjects :
         /\ last_signal[s] = NoSignal \/ ValidSignal(last_signal[s])
         /\ \A k \in 1..Len(signals_history[s]) : ValidSignal(signals_history[s][k])

\* The manager's active strategy is the composite, which returned a signal
\* of strength below 1 made from the signals its components returned.
C31_Witness ==
    /\ active_strategy = "CombinedStrategy"
    /\ last_signal["CombinedStrategy"] # NoSignal
    /\ RLt(last_signal["CombinedStrategy"].strength, One)
    /\ \E s \in {"RSIStrategy", "MACDStrategy"} : last_signal[s] # NoSignal

----------------------------------------------------------------------------
(* The ledger as a whole.                                                  *)

\* The quantity filled on one side of a symbol over the first n trades.
RECURSIVE FilledQuantity(_, _, _, _)
FilledQuantity(ts, n, symbol, side) ==
    IF n = 0 THEN Zero
    ELSE LET rest == FilledQuantity(ts, n - 1, symbol, side)
         IN  IF ts[n].symbol = symbol /\ ts[n].side = side
             THEN RAdd(ts[n].quantity, rest)
             ELSE rest

\* C32: for every symbol, after any sequence of submissions, ticks and
\* cancellations, the total quantity of the SELL trades is at most the total
\* quantity of the BUY trades; pending SELL orders admitted against the same
\* holdings cannot all fill.
C32_SellsCoveredByBuys ==
    \A symbol \in TRADING_PAIRS :
      RLe(FilledQuantity(trades, Len(trades), symbol, "SELL"),
          FilledQuantity(trades, Len(trades), symbol, "BUY"))

\* The sum of one field over the positions of the symbols in syms.
RECURSIVE SumPositions(_, _, _)
SumPositions(ps, syms, field) ==
    IF syms = {} THEN Zero
    ELSE LET s == CHOOSE x \in syms : TRUE
         IN  RAdd(IF field = "total_cost" THEN ps[s].total_cost ELSE ps[s].realized_pnl,
                  SumPositions(ps, syms \ {s}, field))

\* C33: in every reachable state availableBalance = initialBalance - (sum
\* over positions of totalCost) + (sum over positions of realizedPnL) -
\* totalCommission.
C33_AccountingIdentity ==
    available_balance =
      RSub(RAdd(RSub(initial_balance,
                     SumPositions(positions, DOMAIN positions, "total_cost")),
                SumPositions(positions, DOMAIN positions, "realized_pnl")),
           total_commission)

\* C34: a FILLED LIMIT BUY order's avg_fill_price is never above its limit
\* price and a FILLED LIMIT SELL order's avg_fill_price is never below its
\* limit price, whatever the configured slippage >= 0.
C34_LimitPriceProtected ==
    \A i \in DOMAIN orders :
      (orders[i].order_type = "LIMIT" /\ orders[i].status = "FILLED") =>
        IF orders[i].side = "BUY"
        THEN RLe(orders[i].avg_fill_price, orders[i].price)
        ELSE RGe(orders[i].avg_fill_price, orders[i].price)

\* C35: in every reachable state each order has at most one Trade in the
\* trade list, an order has a Trade there exactly when its status is FILLED,
\* total_trades is the length of the trade list, and winning_trades +
\* losing_trades is the number of SELL trades.
C35_TradeBookkeeping ==
    /\ \A i \in DOMAIN orders :
         /\ Cardinality(TradesOf(trades, orders[i].id)) <= 1
         /\ HasTrade(trades, orders[i].id) <=> orders[i].status = "FILLED"
    /\ total_trades = Len(trades)
    /\ winning_trades + losing_trades = Cardinality(SellTrades)

\* The unrealized P&L a position should carry at the latest observed price.
UnrealizedAt(pos, price) ==
    IF pos.quantity = Zero THEN Zero
    ELSE RSub(RMul(pos.quantity, price), pos.total_cost)

\* C36: after every operation each position's unrealized_pnl is quantity x
\* latest observed price - total_cost (0 when the quantity is 0), also after
\* a fill made by place_order or by the pending-order scan of a tick.
C36_UnrealizedUpToDate ==
    \A symbol \in DOMAIN positions :
      positions[symbol].unrealized_pnl =
        UnrealizedAt(positions[symbol], current_prices[symbol])

\* C37: execute_signal with a SELL signal for a symbol that has a known
\* price and a position of quantity > 0 returns an order id and leaves the
\* position with quantity 0; with no position, or quantity 0, it returns
\* none and changes nothing.
C37_SellSignalClosesPosition ==
    \A symbol \in TRADING_PAIRS :
      LET r == execute_signal(Self, TradingSignal("SELL", strong_signal, None),
                              symbol, position_size_pct, TRUE)
      IN  IF /\ symbol \in DOMAIN current_prices
             /\ RGt(PositionOf(Self, symbol).quantity, Zero)
          THEN r.ret # 0 /\ r.ex.positions[symbol].quantity = Zero
          ELSE r.ret = 0 /\ r.ex = Self

\* C37, as amended: the SELL signal closes the position when the holding is
\* worth at least MIN_TRADE_AMOUNT at the known price; a holding worth less
\* is refused like no holding at all (none returned, nothing changed).
C37_SellSignalAmended ==
    \A symbol \in TRADING_PAIRS :
      LET r == execute_signal(Self, TradingSignal("SELL", strong_signal, None),
                              symbol, position_size_pct, TRUE)
          quantity == PositionOf(Self, symbol).quantity
      IN  IF /\ symbol \in DOMAIN current_prices
             /\ RGt(quantity, Zero)
             /\ RGe(RMul(quantity, current_prices[symbol]), R(MIN_TRADE_AMOUNT))
          THEN r.ret # 0 /\ r.ex.positions[symbol].quantity = Zero
          ELSE r.ret = 0 /\ r.ex = Self

\* A signal has sold a holding of two units in one MARKET order.
C37_Witness ==
    \E i \in DOMAIN orders :
      /\ orders[i].side = "SELL"
      /\ orders[i].order_type = "MARKET"
      /\ orders[i].quantity = R(2)
      /\ orders[i].status = "FILLED"
      /\ positions[orders[i].symbol].quantity = Zero

\* What a tick for another symbol must leave alone for symbol b: its
\* orders, its position and its latest price.
SymbolState(ex, b) ==
    [orders |-> SelectSeq(ex.orders, LAMBDA o : o.symbol = b),
     has_position |-> b \in DOMAIN ex.positions,
     position |-> PositionOf(ex, b),
     has_price |-> b \in DOMAIN ex.current_prices,
     price |-> IF b \in DOMAIN ex.current_prices THEN ex.current_prices[b] ELSE None]

\* C38: a price tick for symbol a changes only a's latest price, a's
\* position and a's PENDING orders, with their trades and the shared
\* balance; the orders, position and latest price of every other symbol b
\* are unchanged by it, and every trade it adds is a trade of a.
C38_TickFrame ==
    \A a \in TRADING_PAIRS, price \in PairPrices :
      LET ex == update_price(Self, a, price, {})
      IN  /\ \A b \in TRADING_PAIRS \ {a} : SymbolState(ex, b) = SymbolState(Self, b)
          /\ \A i \in DOMAIN ex.orders :
               ex.orders[i] # orders[i] =>
                 orders[i].symbol = a /\ orders[i].status = "PENDING"
          /\ Len(ex.orders) = Len(orders)
          /\ \A k \in (Len(trades) + 1)..Len(ex.trades) : ex.trades[k].symbol = a

\* A tick has filled the LIMIT BUY of one symbol at a price that also meets
\* the limit of a LIMIT BUY of the other symbol, which is still PENDING.
C38_Witness ==
    \E i, j \in DOMAIN orders :
      /\ orders[i].symbol # orders[j].symbol
      /\ orders[i].order_type = "LIMIT" /\ orders[i].status = "FILLED"
      /\ orders[j].order_type = "LIMIT" /\ orders[j].status = "PENDING"
      /\ should_execute(orders[j], current_prices[orders[i].symbol])

(* The registry and the shutdown. *)

\* C39: after any sequence of add_strategy, remove_strategy and
\* set_active_strategy calls the active strategy is none or the strategy
\* registered under some name, so that generate_signal never delegates to
\* a strategy that was removed or replaced.
C39_ActiveIsRegistered ==
    \/ active_strategy = NoStrategy
    \/ \E name \in DOMAIN strategies : strategies[name] = active_strategy

\* C40: when TradingBot.stop returns, with no tick processed concurrently,
\* no order is PENDING: every order that was open is CANCELLED, the orders
\* already terminal keep their status, and the stop changes no position,
\* trade or balance.
C40_StopCancelsOpenOrders ==
    [][(main.pc = "idle" /\ main'.pc = "stopped") =>
         /\ Len(orders') = Len(orders)
         /\ \A i \in DOMAIN orders :
              /\ orders'[i].status # "PENDING"
              /\ orders[i].status = "PENDING" =>
                   orders'[i] = [orders[i] EXCEPT !.status = "CANCELLED"]
              /\ orders[i].status # "PENDING" => orders'[i] = orders[i]
         /\ UNCHANGED <<trades, positions, current_prices, available_balance,
                        total_trades, winning_trades, losing_trades,
                        total_commission>>]_vars

\* The bot has stopped and its stop cancelled an open order, next to an
\* order that was FILLED before.
C40_Witness ==
    /\ main.pc = "stopped"
    /\ main.returned # {}
    /\ \A i \in main.returned : orders[i].status = "CANCELLED"
    /\ \E i \in DOMAIN orders : i \notin main.returned /\ orders[i].status = "FILLED"

====
